---- MODULE Spec2Model ----
(***************************************************************************)
(* FITTRACK: a fitness-tracking web client over a hosted relational store. *)
(*                                                                         *)
(* The module models                                                       *)
(*   - the store declared by the migration: six tables, their column       *)
(*     constraints and their row-level-security policies;                  *)
(*   - the view components (WeightTracking, MeasurementTracking,           *)
(*     MealLogging, Profile, AIRecommendation, Dashboard) as asynchronous  *)
(*     handlers whose requests are answered by the store in any order;     *)
(*   - analyzeAndRecommend, the rule evaluator, as an operator.            *)
(*                                                                         *)
(* Dates are day numbers; a timestamp is day * TicksPerDay + tick.         *)
(* Numeric amounts are integers (servings in tenths).                      *)
(***************************************************************************)
EXTENDS Integers, Sequences, FiniteSets, TLC

\* ------------------------------------------------------------------ bounds

\* Largest id the store hands out (gen_random_uuid modelled as a counter).
MaxId == 3

\* ------------------------------------------------------------- the store

Users == {"u1", "u2"}

Tables ==
  {"users_profiles", "food_items", "meal_logs", "weight_logs", "measurements",
   "ai_recommendations"}

Commands == {"SELECT", "INSERT", "UPDATE", "DELETE"}

GoalTypes == {"weight_loss", "muscle_gain", "maintenance"}

Categories == {"breakfast", "lunch", "dinner", "snack"}

\* SQL NULL in a text column, and in a numeric column.
NULL == "null"

NullNum == -1000000

\* SQL NULL in recommendation_text (a text is a sequence of sentences).
NullText == <<[kind |-> "null", a |-> 0, b |-> 0]>>

VARIABLES
  db,       \* table name -> set of rows
  nextId,   \* the next generated id
  resp,     \* the answer to the last statement a caller issued
  scope,    \* the tables the callers of this behaviour address
  recIn,    \* analyzeAndRecommend: the arguments of the call
  recOut,   \* analyzeAndRecommend: its result, a sequence of sentences
  user,     \* useAuth().user: the signed-in user, or none
  now,      \* the clock (new Date())
  activeTab,\* Dashboard: the tab shown
  dash,     \* Dashboard state: loading, profile, todayCalories, recentWeight
  view,     \* state of the tab's component: loading, its lists, its form
  tasks,    \* the handler executions waiting for the store's answer
  log,      \* console.error entries
  stats     \* history: what was invoked, sent and answered so far

storeVars == <<db, nextId>>

recVars == <<recIn, recOut>>

clientVars == <<user, now, activeTab, dash, view, tasks, log, stats>>

vars ==
  <<db, nextId, resp, scope, recIn, recOut, user, now, activeTab, dash, view,
    tasks, log, stats>>

\* A value or null (profile | null, food_items | undefined, data | null).
None == <<>>

Some(x) == <<x>>

IsSome(o) == o # None

Get(o) == o[1]

\* The column holding the owner of a row.
OwnerOf(t, r) == IF t = "users_profiles" THEN r.id ELSE r.user_id

\* The row's owner is the caller: the expression auth.uid() = id of the
\* users_profiles policies and auth.uid() = user_id of the others.
IsOwn(t, u, r) == u = OwnerOf(t, r)

\* users_profiles: SELECT, INSERT and UPDATE policies, no DELETE policy.
UsersProfilesPolicy(cmd, u, r) ==
  /\ cmd \in {"SELECT", "INSERT", "UPDATE"}
  /\ IsOwn("users_profiles", u, r)

\* The food_items policies without the INSERT policy.
FoodItemsPolicyNoInsert(cmd, u, r) == cmd = "SELECT"

\* food_items: SELECT USING (true), INSERT WITH CHECK (true), nothing else.
FoodItemsPolicy(cmd, u, r) == cmd \in {"SELECT", "INSERT"}

\* The DELETE policy without its USING expression.
LogsPolicyOpenDelete(t, cmd, u, r) == cmd = "DELETE" \/ IsOwn(t, u, r)

\* meal_logs, weight_logs, measurements: all four commands on own rows.
LogsPolicy(t, cmd, u, r) == IsOwn(t, u, r)

\* The ai_recommendations policies with a DELETE policy on own rows.
AiRecommendationsPolicyWithDelete(cmd, u, r) ==
  /\ cmd \in {"SELECT", "INSERT", "DELETE"}
  /\ IsOwn("ai_recommendations", u, r)

\* ai_recommendations: a SELECT and an INSERT policy, both on own rows.
AiRecommendationsPolicy(cmd, u, r) ==
  /\ cmd \in {"SELECT", "INSERT"}
  /\ IsOwn("ai_recommendations", u, r)

\* Row r passes the policy of command cmd on table t for authenticated caller
\* u; with row-level security enabled, a command without a policy passes no row.
Policy(t, cmd, u, r) ==
  CASE t = "users_profiles" -> UsersProfilesPolicy(cmd, u, r)
    [] t = "food_items" -> FoodItemsPolicy(cmd, u, r)
    [] t = "ai_recommendations" -> AiRecommendationsPolicy(cmd, u, r)
    [] OTHER -> LogsPolicy(t, cmd, u, r)

\* auth.users, the table of the accounts, kept in the store beside Tables.
AuthUsers == "auth.users"

\* REFERENCES auth.users(id): the account exists.
UserExists(d, u) == \E a \in d[AuthUsers] : a.id = u

\* The foreign keys of row r of table t hold in store d.
ForeignKeys(d, t, r) ==
  CASE t = "users_profiles" -> UserExists(d, r.id)
    [] t = "food_items" -> TRUE
    [] t = "meal_logs" ->
         UserExists(d, r.user_id) /\ \E f \in d["food_items"] : f.id = r.food_id
    [] OTHER -> UserExists(d, r.user_id)

\* Column constraints of a new or changed row r of table t in store d:
\* NOT NULL, CHECK, UNIQUE and the foreign keys.
Constraints(d, t, r) ==
  CASE t = "users_profiles" ->
         /\ UserExists(d, r.id)
         /\ r.goal_type \in GoalTypes
         /\ r.name # NULL
         /\ r.daily_calorie_target # NullNum
    [] t = "food_items" ->
         /\ r.name # NULL
         /\ r.barcode # NULL =>
              \A f \in d["food_items"] : f.id # r.id => f.barcode # r.barcode
    [] t = "meal_logs" ->
         /\ ForeignKeys(d, t, r)
         /\ r.category \in Categories
    [] t = "weight_logs" -> ForeignKeys(d, t, r) /\ r.weight # NullNum
    [] t = "measurements" -> ForeignKeys(d, t, r)
    [] t = "ai_recommendations" ->
         ForeignKeys(d, t, r) /\ r.recommendation_text # NullText

\* The primary key: no other row of the table has the id.
PrimaryKeyFree(d, t, id) == \A x \in d[t] : x.id # id

\* SELECT: the rows of t the caller's SELECT policy lets through.
SqlSelect(d, u, t) == {r \in d[t] : Policy(t, "SELECT", u, r)}

\* INSERT of one row: rejected as a whole (store unchanged) when the policy's
\* WITH CHECK or a constraint fails.
SqlInsert(d, u, t, r) ==
  IF Policy(t, "INSERT", u, r) /\ Constraints(d, t, r) /\ PrimaryKeyFree(d, t, r.id)
  THEN [error |-> FALSE, db |-> [d EXCEPT ![t] = @ \cup {r}], count |-> 1]
  ELSE [error |-> TRUE, db |-> d, count |-> 0]

\* The rows a statement with filter id = ... reaches under command cmd.
Targets(d, u, t, cmd, id) == {r \in d[t] : r.id = id /\ Policy(t, cmd, u, r)}

\* SET col = value, ...: the row with the patch's columns replaced.
ApplyPatch(r, patch) ==
  [c \in DOMAIN r |-> IF c \in DOMAIN patch THEN patch[c] ELSE r[c]]

\* UPDATE ... WHERE id = ...: rows outside USING are silently skipped; a new row
\* failing WITH CHECK or a constraint aborts the statement.
SqlUpdate(d, u, t, id, patch) ==
  LET old == Targets(d, u, t, "UPDATE", id)
      new == {ApplyPatch(r, patch) : r \in old}
  IN IF \A r \in new : Policy(t, "UPDATE", u, r) /\ Constraints(d, t, r)
     THEN [error |-> FALSE, db |-> [d EXCEPT ![t] = (@ \ old) \cup new],
           count |-> Cardinality(old)]
     ELSE [error |-> TRUE, db |-> d, count |-> 0]

\* DELETE ... WHERE id = ...: rows outside USING are silently skipped.
SqlDelete(d, u, t, id) ==
  LET old == Targets(d, u, t, "DELETE", id)
  IN [error |-> FALSE, db |-> [d EXCEPT ![t] = @ \ old], count |-> Cardinality(old)]

\* The sample rows the migration inserts (protein, carbs and fats in tenths).
SampleFood(i, n, cal, p, c, f, b) ==
  [id |-> 100 + i, name |-> n, calories |-> cal, protein |-> p, carbs |-> c,
   fats |-> f, barcode |-> b]

SampleFoods ==
  {SampleFood(1, "Chicken Breast", 165, 310, 0, 36, "1234567890001"),
   SampleFood(2, "Brown Rice", 216, 50, 450, 18, "1234567890002"),
   SampleFood(3, "Broccoli", 55, 37, 112, 6, "1234567890003"),
   SampleFood(4, "Salmon", 206, 220, 0, 130, "1234567890004"),
   SampleFood(5, "Banana", 105, 13, 270, 4, "1234567890005"),
   SampleFood(6, "Greek Yogurt", 100, 100, 36, 40, "1234567890006"),
   SampleFood(7, "Eggs", 155, 130, 11, 110, "1234567890007"),
   SampleFood(8, "Oatmeal", 158, 60, 280, 30, "1234567890008"),
   SampleFood(9, "Almonds", 164, 60, 60, 140, "1234567890009"),
   SampleFood(10, "Sweet Potato", 112, 20, 260, 1, "1234567890010")}

\* The store right after the migration, with the accounts of Users signed up.
MigratedDb ==
  [t \in Tables \cup {AuthUsers} |->
     IF t = "food_items" THEN SampleFoods
     ELSE IF t = AuthUsers THEN {[id |-> u] : u \in Users}
     ELSE {}]

\* --------------------------------------------- callers against the store
\* Any authenticated caller may send any statement: the requests below are not
\* limited to those the views send.

\* Rows a caller may try to insert into t on behalf of owner o.
RequestRows(t, o, id) ==
  CASE t = "users_profiles" ->
         {[id |-> o, name |-> "Ann", goal_type |-> g, daily_calorie_target |-> 2000] :
            g \in {"maintenance", "bulking"}}
    [] t = "food_items" ->
         {[id |-> id, name |-> n, calories |-> 100, protein |-> 100, carbs |-> 0,
           fats |-> 0, barcode |-> b] :
            n \in {"Tofu", NULL}, b \in {NULL, "777", "1234567890001"}}
    [] t = "meal_logs" ->
         {[id |-> id, user_id |-> o, food_id |-> f, servings |-> 10,
           category |-> "lunch", logged_at |-> 0] : f \in {101, 999}}
    [] t = "weight_logs" ->
         {[id |-> id, user_id |-> o, weight |-> 700, date |-> 0]}
    [] t = "measurements" ->
         {[id |-> id, user_id |-> o, date |-> 0, waist |-> 800, chest |-> NullNum,
           arms |-> NullNum, hips |-> NullNum, thighs |-> NullNum]}
    [] t = "ai_recommendations" ->
         {[id |-> id, user_id |-> o, recommendation_text |-> <<[kind |-> "text", a |-> 0, b |-> 0]>>, date |-> 0]}

\* SET clauses a caller may try on a row of t.
RequestPatches(t) ==
  CASE t = "users_profiles" -> {[daily_calorie_target |-> 1500], [id |-> "u2"]}
    [] t = "food_items" -> {[calories |-> 1]}
    [] t = "meal_logs" -> {[servings |-> 20], [user_id |-> "u2"]}
    [] t = "weight_logs" -> {[weight |-> 710], [user_id |-> "u2"]}
    [] t = "measurements" -> {[waist |-> 810], [user_id |-> "u2"]}
    [] t = "ai_recommendations" -> {[date |-> 1], [user_id |-> "u2"]}

\* Ids a caller may name in a filter: those in the table.
IdsOf(d, t) == {r.id : r \in d[t]}

\* The owners of the rows with this id (none for food_items).
OwnersAt(d, t, id) ==
  IF t = "food_items" THEN {} ELSE {OwnerOf(t, r) : r \in {x \in d[t] : x.id = id}}

CallerSelect(u, t) ==
  /\ resp' = [cmd |-> "SELECT", caller |-> u, table |-> t, error |-> FALSE,
              rows |-> SqlSelect(db, u, t), aimed |-> {}, named |-> FALSE]
  /\ UNCHANGED storeVars

CallerInsert(u, t, o) ==
  /\ nextId <= MaxId
  /\ \E r \in RequestRows(t, o, nextId) :
       LET res == SqlInsert(db, u, t, r)
       IN /\ db' = res.db
          /\ nextId' = IF res.error \/ t = "users_profiles" THEN nextId ELSE nextId + 1
          /\ resp' = [cmd |-> "INSERT", caller |-> u, table |-> t, error |-> res.error,
                      rows |-> {r}, aimed |-> IF t = "food_items" THEN {} ELSE {o},
                      named |-> t = "food_items" /\ r.name # NULL
                                /\ (r.barcode = NULL \/
                                    \A f \in db[t] : f.barcode # r.barcode)]

CallerUpdate(u, t, id) ==
  \E patch \in RequestPatches(t) :
    LET res == SqlUpdate(db, u, t, id, patch)
    IN /\ db' = res.db
       /\ resp' = [cmd |-> "UPDATE", caller |-> u, table |-> t, error |-> res.error,
                   rows |-> {}, aimed |-> OwnersAt(db, t, id), named |-> FALSE]
       /\ UNCHANGED nextId

CallerDelete(u, t, id) ==
  LET res == SqlDelete(db, u, t, id)
  IN /\ db' = res.db
     /\ resp' = [cmd |-> "DELETE", caller |-> u, table |-> t, error |-> res.error,
                 rows |-> {}, aimed |-> OwnersAt(db, t, id), named |-> FALSE]
     /\ UNCHANGED nextId

NoResp ==
  [cmd |-> "NONE", caller |-> "u1", table |-> "food_items", error |-> FALSE,
   rows |-> {}, aimed |-> {}, named |-> FALSE]

\* Tables joined by a foreign key (auth.users aside) form a component; tables
\* of different components share no state, so a behaviour addresses one
\* component.
Components ==
  {{"users_profiles"}, {"food_items", "meal_logs"}, {"weight_logs"},
   {"measurements"}, {"ai_recommendations"}}

\* analyzeAndRecommend is not running.
RecIdle == recIn = None /\ recOut = None

\* No client is running.
ClientIdle ==
  /\ user = None /\ now = 0 /\ activeTab = "dashboard"
  /\ dash = None /\ view = None /\ tasks = <<>> /\ log = <<>> /\ stats = None

InitStore ==
  /\ db = MigratedDb
  /\ nextId = 1
  /\ resp = NoResp
  /\ scope \in Components
  /\ RecIdle
  /\ ClientIdle

\* What a statement leaves alone.
StoreFrame == UNCHANGED <<scope, recVars, clientVars>>

StoreSelect == StoreFrame /\ \E u \in Users, t \in scope : CallerSelect(u, t)

StoreInsert ==
  StoreFrame /\ \E u \in Users, t \in scope, o \in Users : CallerInsert(u, t, o)

StoreUpdate ==
  /\ StoreFrame
  /\ \E u \in Users, t \in scope : \E id \in IdsOf(db, t) : CallerUpdate(u, t, id)

\* Ids a caller may name in a delete: those in the table and, where ids are
\* generated, one that no row has.
DeleteIds(d, nid, t) ==
  IF t = "users_profiles" THEN IdsOf(d, t) ELSE IdsOf(d, t) \cup {nid}

StoreDelete ==
  /\ StoreFrame
  /\ \E u \in Users, t \in scope :
       \E id \in DeleteIds(db, nextId, t) : CallerDelete(u, t, id)

NextStore == StoreSelect \/ StoreInsert \/ StoreUpdate \/ StoreDelete

SpecStore == InitStore /\ [][NextStore]_vars

\* ------------------------------------------------ the schema's own rules
\* Statements of the role that owns the tables (the one that runs the
\* migration): row-level security does not apply to it, the constraints do.
\* What an authenticated caller can do to the store is among these.

\* ON DELETE without its CASCADE action.
CascadeNothing(d) == d

\* ON DELETE CASCADE: the rows whose referenced row is gone go with it.
Cascade(d) ==
  [t \in DOMAIN d |->
     IF t = AuthUsers THEN d[t] ELSE {r \in d[t] : ForeignKeys(d, t, r)}]

\* INSERT of one row.
OwnerInsert(d, t, r) ==
  IF Constraints(d, t, r) /\ PrimaryKeyFree(d, t, r.id)
  THEN [error |-> FALSE, db |-> [d EXCEPT ![t] = @ \cup {r}]]
  ELSE [error |-> TRUE, db |-> d]

\* UPDATE ... WHERE id = ...
OwnerUpdate(d, t, id, patch) ==
  LET old == {r \in d[t] : r.id = id}
      new == {ApplyPatch(r, patch) : r \in old}
  IN IF \A r \in new : Constraints(d, t, r)
     THEN [error |-> FALSE, db |-> [d EXCEPT ![t] = (@ \ old) \cup new]]
     ELSE [error |-> TRUE, db |-> d]

\* DELETE ... WHERE id = ..., of a table or of auth.users.
OwnerDelete(d, t, id) == Cascade([d EXCEPT ![t] = {r \in @ : r.id # id}])

\* The sample-row insert that skips no row.
InsertSampleFoodsAlways(d, gen) ==
  [d EXCEPT !["food_items"] =
     @ \cup {[f EXCEPT !.id = 100 * gen + (f.id - 100)] : f \in SampleFoods}]

\* The migration's INSERT INTO food_items ... ON CONFLICT (barcode) DO NOTHING,
\* applied for the gen-th time: a sample row whose barcode is present is skipped,
\* the others get fresh ids.
InsertSampleFoods(d, gen) ==
  [d EXCEPT !["food_items"] =
     @ \cup {[f EXCEPT !.id = 100 * gen + (f.id - 100)] :
               f \in {x \in SampleFoods : \A y \in @ : y.barcode # x.barcode}}]

\* Rows and SET clauses the owner may try: those of the callers, and some with
\* values outside the CHECK lists or the referenced tables.
SchemaOwners == {"u1", "u3"}

SchemaRows(t, o, id) ==
  RequestRows(t, o, id)
    \cup (IF t = "meal_logs"
          THEN {[id |-> id, user_id |-> o, food_id |-> 101, servings |-> 10,
                 category |-> c, logged_at |-> 0] : c \in {"brunch", "snack"}}
          ELSE {})

SchemaPatches(t) ==
  CASE t = "users_profiles" -> {[goal_type |-> g] : g \in {"muscle_gain", "bulking"}}
    [] t = "food_items" -> {[barcode |-> b] : b \in {"777", "1234567890002"}}
    [] t = "meal_logs" ->
         {[category |-> c] : c \in {"dinner", "brunch"}} \cup {[food_id |-> 999]}
    [] OTHER -> RequestPatches(t)

\* The ids the owner's UPDATE and DELETE statements name: of the sample foods,
\* one.
AddressedSamples == {101}

Addressed(d, t) ==
  {id \in IdsOf(d, t) : t = "food_items" => (id < 100 \/ id \in AddressedSamples)}

\* The answer to an owner's statement; rows: the rows it named.
OwnerResp(cmd, t, error, rows) ==
  [cmd |-> cmd, caller |-> "owner", table |-> t, error |-> error, rows |-> rows,
   aimed |-> {}, named |-> FALSE]

InitSchema == InitStore

SchemaInsert ==
  /\ nextId <= MaxId
  /\ \E t \in scope, o \in SchemaOwners :
       \E r \in SchemaRows(t, o, nextId) :
         LET res == OwnerInsert(db, t, r)
         IN /\ db' = res.db
            /\ nextId' = IF res.error \/ t = "users_profiles" THEN nextId
                         ELSE nextId + 1
            /\ resp' = OwnerResp("INSERT", t, res.error, {r})
  /\ StoreFrame

SchemaUpdate ==
  /\ \E t \in scope : \E id \in Addressed(db, t), patch \in SchemaPatches(t) :
       LET res == OwnerUpdate(db, t, id, patch)
       IN /\ db' = res.db
          /\ resp' = OwnerResp("UPDATE", t, res.error,
                               {ApplyPatch(r, patch) : r \in {x \in db[t] : x.id = id}})
  /\ UNCHANGED nextId
  /\ StoreFrame

SchemaDelete ==
  /\ \E t \in scope : \E id \in Addressed(db, t) :
       /\ db' = OwnerDelete(db, t, id)
       /\ resp' = OwnerResp("DELETE", t, FALSE, {x \in db[t] : x.id = id})
  /\ UNCHANGED nextId
  /\ StoreFrame

SchemaDeleteUser ==
  /\ scope # {}
  /\ \E u \in IdsOf(db, AuthUsers) :
       /\ db' = OwnerDelete(db, AuthUsers, u)
       /\ resp' = OwnerResp("DELETE", AuthUsers, FALSE, {[id |-> u]})
  /\ UNCHANGED nextId
  /\ StoreFrame

SchemaSamples ==
  /\ nextId <= MaxId
  /\ "food_items" \in scope
  /\ db' = InsertSampleFoods(db, nextId + 1)
  /\ nextId' = nextId + 1
  /\ resp' = OwnerResp("SAMPLES", "food_items", FALSE, {})
  /\ StoreFrame

NextSchema ==
  \/ SchemaInsert
  \/ SchemaUpdate
  \/ SchemaDelete
  \/ SchemaDeleteUser
  \/ SchemaSamples

SpecSchema == InitSchema /\ [][NextSchema]_vars

\* ---------------------------------------------------- analyzeAndRecommend
\* Timestamps: logged_at = day * TicksPerDay + tick; split('T')[0] is the day.

TicksPerDay == 2

DayOf(ts) == ts \div TicksPerDay

\* Math.round of the quotient n / d (d > 0): halves round up.
RoundDiv(n, d) == (2 * n + d) \div (2 * d)

Max(a, b) == IF a >= b THEN a ELSE b

Abs(a) == IF a < 0 THEN -a ELSE a

\* One sentence of the text; the text is the sentences joined by a blank line.
Sentence(k, a, b) == [kind |-> k, a |-> a, b |-> b]

\* meals.forEach: the meals that carry their joined food item.
WithFood(meals) == {i \in DOMAIN meals : IsSome(meals[i].food_items)}

\* Sum over the meals with a food item of column * servings
\* (servings in tenths, so the total is in tenths of the column's unit).
RECURSIVE TotalOf(_, _, _)
TotalOf(meals, col, idx) ==
  IF idx = {} THEN 0
  ELSE LET i == CHOOSE j \in idx : TRUE
       IN Get(meals[i].food_items)[col] * meals[i].servings
            + TotalOf(meals, col, idx \ {i})

\* The distinct dates of all the meals.
DaysLoggedAll(meals) == {DayOf(meals[i].logged_at) : i \in DOMAIN meals}

\* daysLogged: the distinct dates of the meals with a food item.
DaysLogged(meals) == {DayOf(meals[i].logged_at) : i \in WithFood(meals)}

\* avgDailyCalories < targetCalories * 0.8, on exact numbers:
\* total / (10 * days) < 4 * target / 5.
BelowTargetLoose(total10, days, target) == 5 * total10 <= 4 * target * 10 * days

BelowTarget(total10, days, target) == 5 * total10 < 4 * target * 10 * days

\* avgDailyCalories > targetCalories * 1.2.
AboveTarget(total10, days, target) == 5 * total10 > 6 * target * 10 * days

\* avgProtein <= 50.
LowProteinLoose(total100, days) == total100 <= 50 * 100 * days

\* avgProtein < 50, on exact numbers (protein and servings are in tenths, so
\* the total is in hundredths of a gram): total / (100 * days) < 50.
LowProtein(total100, days) == total100 < 50 * 100 * days

\* Lines 510-552: the meal section.
MealSection(profile, meals) ==
  IF ~IsSome(meals) \/ Len(Get(meals)) = 0
  THEN <<Sentence("start_logging", 0, 0)>>
  ELSE LET ms == Get(meals)
           totalCalories == TotalOf(ms, "calories", WithFood(ms))
           totalProtein == TotalOf(ms, "protein", WithFood(ms))
           days == Max(Cardinality(DaysLogged(ms)), 1)
           targetCalories == profile.daily_calorie_target
           avgRounded == RoundDiv(totalCalories, 10 * days)
           calorie ==
             IF BelowTarget(totalCalories, days, targetCalories)
             THEN Sentence("below_target", avgRounded, targetCalories)
             ELSE IF AboveTarget(totalCalories, days, targetCalories)
             THEN Sentence("exceeds_target", avgRounded, targetCalories)
             ELSE Sentence("aligned", avgRounded, 0)
           protein ==
             IF LowProtein(totalProtein, days) /\ profile.goal_type = "muscle_gain"
             THEN <<Sentence("increase_protein", 0, 0)>>
             ELSE <<>>
       IN <<calorie>> \o protein

\* The second fetched weight minus the first.
weightChangeReversed(weights) == weights[2].weight - weights[1].weight

\* Line 555: weights[0].weight - weights[1].weight.
weightChange(weights) == weights[1].weight - weights[2].weight

\* Lines 554-571: the weight section (weights in tenths of a kg).
WeightSection(profile, weights) ==
  IF IsSome(weights) /\ Len(Get(weights)) >= 2
  THEN LET change == weightChange(Get(weights))
       IN IF profile.goal_type = "weight_loss" /\ change > 0
          THEN <<Sentence("weight_increased", change, 0)>>
          ELSE IF profile.goal_type = "muscle_gain" /\ change < 0
          THEN <<Sentence("weight_decreased", Abs(change), 0)>>
          ELSE IF change < 0 /\ profile.goal_type = "weight_loss"
          THEN <<Sentence("excellent_progress", Abs(change), 0)>>
          ELSE <<>>
  ELSE <<Sentence("log_weight", 0, 0)>>

\* The maintenance tip whatever the goal.
GoalTipMaintenance(profile) == <<Sentence("tip_maintenance", 0, 0)>>

\* Lines 573-585: the goal tip.
GoalTip(profile) ==
  IF profile.goal_type = "weight_loss" THEN <<Sentence("tip_weight_loss", 0, 0)>>
  ELSE IF profile.goal_type = "muscle_gain" THEN <<Sentence("tip_muscle_gain", 0, 0)>>
  ELSE <<Sentence("tip_maintenance", 0, 0)>>

analyzeAndRecommend(profile, meals, weights) ==
  IF ~IsSome(profile) THEN <<Sentence("complete_profile", 0, 0)>>
  ELSE MealSection(Get(profile), meals)
         \o WeightSection(Get(profile), weights)
         \o GoalTip(Get(profile))

\* Arguments the evaluator is applied to.
MaxMeals == 2

RecFoods ==
  {[calories |-> c, protein |-> p, carbs |-> 0, fats |-> 0] :
     c \in {400, 800, 1200}, p \in {250}}

RecMealRows ==
  [food_items : {None} \cup {Some(f) : f \in RecFoods}, servings : {5, 10},
   logged_at : {0, TicksPerDay}]

RecProfiles ==
  [goal_type : GoalTypes, daily_calorie_target : {1000, 2000}]

RecWeightRows == [weight : {700, 705}]

SeqsUpTo(S, n) == UNION {[1..k -> S] : k \in 0..n}

InitRec ==
  /\ db = MigratedDb /\ nextId = 1 /\ resp = NoResp /\ scope = {}
  /\ ClientIdle
  /\ recOut = None
  /\ recIn \in
       [profile : {None} \cup {Some(q) : q \in RecProfiles},
        meals : {None} \cup {Some(m) : m \in SeqsUpTo(RecMealRows, MaxMeals)},
        weights : {None} \cup {Some(w) : w \in SeqsUpTo(RecWeightRows, 2)}]

Analyze ==
  /\ user = None
  /\ recOut = None
  /\ recOut' = Some(analyzeAndRecommend(recIn.profile, recIn.meals, recIn.weights))
  /\ UNCHANGED <<db, nextId, resp, scope, recIn, clientVars>>

NextRec == Analyze

SpecRec == InitRec /\ [][NextRec]_vars

\* ------------------------------------------------- ProgressCharts' totals
\* ProgressCharts.loadProgressData, from the fetched meals to dailyCalories.
\* A date string is modelled by its day number: same-length ISO date strings
\* compare (localeCompare) as their days do.

MaxChartMeals == 3   \* fetched meals

\* caloriesByDay after meals.forEach: the Map's entries in insertion order,
\* calories in tenths (servings are in tenths).
RECURSIVE caloriesByDay(_)
caloriesByDay(meals) ==
  IF meals = <<>> THEN <<>>
  ELSE LET map == caloriesByDay(SubSeq(meals, 1, Len(meals) - 1))
           meal == meals[Len(meals)]
           date == DayOf(meal.logged_at)
           calories == IF IsSome(meal.food_items)
                       THEN Get(meal.food_items).calories * meal.servings
                       ELSE 0
       IN IF \E k \in DOMAIN map : map[k].date = date
          THEN [k \in DOMAIN map |->
                  IF map[k].date = date
                  THEN [map[k] EXCEPT !.calories = @ + calories]
                  ELSE map[k]]
          ELSE Append(map, [date |-> date, calories |-> calories])

\* The entries left in the Map's order.
Unsorted(entries) == entries

\* .sort((a, b) => a.date.localeCompare(b.date)): a stable ascending sort.
RECURSIVE SortByDate(_)
SortByDate(entries) ==
  IF entries = <<>> THEN <<>>
  ELSE LET e == Head(entries)
           rest == SortByDate(Tail(entries))
       IN SelectSeq(rest, LAMBDA x : x.date < e.date)
            \o <<e>>
            \o SelectSeq(rest, LAMBDA x : ~(x.date < e.date))

\* calorieData: the entries with Math.round(calories), sorted.
dailyCalories(meals) ==
  LET map == caloriesByDay(meals)
  IN SortByDate([k \in DOMAIN map |->
                  [date |-> map[k].date, calories |-> RoundDiv(map[k].calories, 10)]])

ChartFoods == {[calories |-> c, protein |-> 0, carbs |-> 0, fats |-> 0] : c \in {155}}

\* Meals of three days, two of them on the first, with and without a food item.
ChartMealRows ==
  [food_items : {None} \cup {Some(f) : f \in ChartFoods}, servings : {5, 15},
   logged_at : {0, 1, TicksPerDay, 2 * TicksPerDay}]

InitCharts ==
  /\ db = MigratedDb /\ nextId = 1 /\ resp = NoResp /\ scope = {}
  /\ ClientIdle
  /\ recOut = None
  /\ recIn \in [meals : SeqsUpTo(ChartMealRows, MaxChartMeals)]

LoadProgressData ==
  /\ recOut = None
  /\ recOut' = Some(dailyCalories(recIn.meals))
  /\ UNCHANGED <<db, nextId, resp, scope, recIn, clientVars>>

NextCharts == LoadProgressData

SpecCharts == InitCharts /\ [][NextCharts]_vars

\* ------------------------------------------------- the views' statements
\* supabase.from(t).select(...).eq(...).order(...).limit(...): the filters are
\* applied to the rows the SELECT policy lets through. Rows with equal sort keys
\* come in any order, so a query has a set of possible answers.

\* .limit(30) of loadWeightLogs and loadMeasurements.
ListLimit == 30

\* food_items.name order (.order('name')); an unlisted name sorts last.
NameRank(n) ==
  CASE n = "Almonds" -> 1 [] n = "Banana" -> 2 [] n = "Broccoli" -> 3
    [] n = "Brown Rice" -> 4 [] n = "Chicken Breast" -> 5 [] n = "Eggs" -> 6
    [] n = "Greek Yogurt" -> 7 [] n = "Oatmeal" -> 8 [] n = "Salmon" -> 9
    [] n = "Sweet Potato" -> 10 [] OTHER -> 11

\* The sort key of row r under .order(col, { ascending }).
SortKey(r, col, ascending) ==
  LET k == IF col = "name" THEN NameRank(r.name)
           ELSE IF col = "" THEN 0   \* no .order(): any listing
           ELSE r[col]
  IN IF ascending THEN k ELSE -k

\* All listings of the rows S in .order(col, { ascending }) order.
RECURSIVE Ordered(_, _, _)
Ordered(S, col, ascending) ==
  IF S = {} THEN {<<>>}
  ELSE LET first == {r \in S : \A x \in S :
                       SortKey(r, col, ascending) <= SortKey(x, col, ascending)}
       IN UNION {{<<r>> \o rest : rest \in Ordered(S \ {r}, col, ascending)} :
                 r \in first}

\* .limit(n)
Limit(rows, n) == SubSeq(rows, 1, IF Len(rows) < n THEN Len(rows) ELSE n)

\* .maybeSingle() after .limit(1): the row, or null.
MaybeSingle(rows) == IF Len(rows) = 0 THEN None ELSE Some(rows[1])

\* select('*, food_items(*)'): the meal with the food item it references, as
\* far as the caller may read it.
JoinFood(d, u, m) ==
  LET fs == {f \in SqlSelect(d, u, "food_items") : f.id = m.food_id}
  IN [id |-> m.id, user_id |-> m.user_id, food_id |-> m.food_id,
      servings |-> m.servings, category |-> m.category, logged_at |-> m.logged_at,
      food_items |-> IF fs = {} THEN None ELSE Some(CHOOSE f \in fs : TRUE)]

\* The caller's rows of t with .eq('user_id', uid).
OwnRows(d, u, t, uid) == {r \in SqlSelect(d, u, t) : r.user_id = uid}

\* The list query with { ascending: true }.
ListQueryAscending(d, u, t) ==
  {Limit(rows, ListLimit) : rows \in Ordered(OwnRows(d, u, t, u), "date", TRUE)}

\* loadWeightLogs / loadMeasurements:
\* .eq('user_id', user.id).order('date', { ascending: false }).limit(30)
ListQuery(d, u, t) ==
  {Limit(rows, ListLimit) : rows \in Ordered(OwnRows(d, u, t, u), "date", FALSE)}

\* loadMealLogs: .gte('logged_at', today).order('logged_at', { ascending: false })
MealLogsQuery(d, u, today) ==
  Ordered({JoinFood(d, u, m) : m \in {r \in OwnRows(d, u, "meal_logs", u) :
                                       r.logged_at >= today * TicksPerDay}},
          "logged_at", FALSE)

\* loadFoods: .order('name')
FoodsQuery(d, u) == Ordered(SqlSelect(d, u, "food_items"), "name", TRUE)

\* .from('users_profiles').select('*').eq('id', user.id).maybeSingle()
ProfileQuery(d, u) ==
  {MaybeSingle(rows) :
     rows \in Ordered({r \in SqlSelect(d, u, "users_profiles") : r.id = u}, "", TRUE)}

\* loadLatestRecommendation:
\* .order('date', { ascending: false }).limit(1).maybeSingle()
LatestRecommendationQuery(d, u) ==
  {MaybeSingle(Limit(rows, 1)) :
     rows \in Ordered(OwnRows(d, u, "ai_recommendations", u), "date", FALSE)}

\* generateRecommendation: meals since seven days ago, in no stated order.
RecentMealsQuery(d, u, since) ==
  Ordered({JoinFood(d, u, m) : m \in {r \in OwnRows(d, u, "meal_logs", u) :
                                       r.logged_at >= since}},
          "", TRUE)

\* loadProgressData: .gte('date', <date of startDate>).order('date', { ascending: true })
ProgressWeightsQuery(d, u, start) ==
  Ordered({r \in OwnRows(d, u, "weight_logs", u) : r.date >= DayOf(start)},
          "date", TRUE)

\* loadProgressData: .gte('logged_at', startDate.toISOString())
\* .order('logged_at', { ascending: true })
ProgressMealsQuery(d, u, start) ==
  Ordered({JoinFood(d, u, m) : m \in {r \in OwnRows(d, u, "meal_logs", u) :
                                       r.logged_at >= start}},
          "logged_at", TRUE)

\* generateRecommendation: .order('date', { ascending: false }).limit(2)
LastTwoWeightsQuery(d, u) ==
  {Limit(rows, 2) : rows \in Ordered(OwnRows(d, u, "weight_logs", u), "date", FALSE)}

\* loadDashboardData: .gte('logged_at', today).lt('logged_at', `${today}T23:59:59`);
\* the last tick of a day is its last second.
TodayMealsQuery(d, u, today) ==
  Ordered({JoinFood(d, u, m) : m \in {r \in OwnRows(d, u, "meal_logs", u) :
                                       /\ r.logged_at >= today * TicksPerDay
                                       /\ r.logged_at < today * TicksPerDay
                                                          + (TicksPerDay - 1)}},
          "", TRUE)

\* loadDashboardData: .select('weight').order('date', desc).limit(1).maybeSingle()
RecentWeightQuery(d, u) ==
  {MaybeSingle(Limit(rows, 1)) :
     rows \in Ordered(OwnRows(d, u, "weight_logs", u), "date", FALSE)}

\* ------------------------------------------------------------ requests
\* A handler awaits one request at a time. The store answers a request at some
\* moment after it was sent (Serve), and the handler resumes at some moment
\* after that (its continuation): answers reach the client in any order.

MaxOps == 2        \* submits and deletes the user starts in a logging view

AppOps == 1        \* operations the user starts in a session across the tabs

MaxSwitches == 1   \* tab changes

MaxTicks == 1      \* clock ticks

MaxFailures == 1   \* requests that fail

Req(kind, t, row, id, arg) ==
  [kind |-> kind, table |-> t, row |-> row, id |-> id, arg |-> arg]

NoRow == [id |-> 0]

SelectReq(kind, t, arg) == Req(kind, t, NoRow, 0, arg)

InsertReq(t, row) == Req("insert", t, row, 0, 0)

DeleteReq(t, id) == Req("delete", t, NoRow, id, 0)

\* An update sent to the weight logs whatever the table named.
UpdateReqWeightLogs(t, id, patch) == Req("update", "weight_logs", patch, id, 0)

UpdateReq(t, id, patch) == Req("update", t, patch, id, 0)

IsWrite(q) == q.kind \in {"insert", "delete", "update"}

\* The rows (or the row, or null) a select may return.
SelectAnswers(d, u, q) ==
  CASE q.kind = "list" -> {Some(x) : x \in ListQuery(d, u, q.table)}
    [] q.kind = "meal_logs" -> {Some(x) : x \in MealLogsQuery(d, u, q.arg)}
    [] q.kind = "foods" -> {Some(x) : x \in FoodsQuery(d, u)}
    [] q.kind = "profile" -> ProfileQuery(d, u)
    [] q.kind = "latest_recommendation" -> LatestRecommendationQuery(d, u)
    [] q.kind = "recent_meals" -> {Some(x) : x \in RecentMealsQuery(d, u, q.arg)}
    [] q.kind = "last_two_weights" -> {Some(x) : x \in LastTwoWeightsQuery(d, u)}
    [] q.kind = "today_meals" -> {Some(x) : x \in TodayMealsQuery(d, u, q.arg)}
    [] q.kind = "recent_weight" -> RecentWeightQuery(d, u)
    [] q.kind = "progress_weights" ->
         {Some(x) : x \in ProgressWeightsQuery(d, u, q.arg)}
    [] q.kind = "progress_meals" -> {Some(x) : x \in ProgressMealsQuery(d, u, q.arg)}

\* The store's possible answers { data, error } to request q of caller u, with
\* the store after it. An insert gets the next generated id.
Answers(d, nid, u, q) ==
  CASE q.kind = "insert" ->
         LET res == SqlInsert(d, u, q.table, [id |-> nid] @@ q.row)
         IN {[error |-> res.error, data |-> None, db |-> res.db]}
    [] q.kind = "delete" ->
         LET res == SqlDelete(d, u, q.table, q.id)
         IN {[error |-> res.error, data |-> None, db |-> res.db]}
    [] q.kind = "update" ->
         LET res == SqlUpdate(d, u, q.table, q.id, q.row)
         IN {[error |-> res.error, data |-> None, db |-> res.db]}
    [] OTHER ->
         {[error |-> FALSE, data |-> x, db |-> d] : x \in SelectAnswers(d, u, q)}

\* The answer of a request that failed (network, denial, constraint): no data.
Failed == [error |-> TRUE, data |-> None]

\* A handler execution awaiting request q. History fields: ins, the id the store
\* generated for the handler's insert; seen, the table as of its last answer.
NewTask(h, q) ==
  [h |-> h, pc |-> 1, st |-> "sent", live |-> TRUE, req |-> q, ans |-> Failed,
   acc |-> [profile |-> None, meals |-> None], ins |-> 0, seen |-> None]

Bump(f, t) == [f EXCEPT ![t] = @ + 1]

\* The store answers the request of task i.
Serve(i) ==
  /\ tasks[i].st = "sent"
  /\ LET q == tasks[i].req
     IN \/ \E a \in Answers(db, nextId, Get(user), q) :
             /\ db' = a.db
             /\ nextId' = IF q.kind = "insert" /\ ~a.error THEN nextId + 1 ELSE nextId
             /\ tasks' = [tasks EXCEPT
                  ![i].st = "answered",
                  ![i].ans = [error |-> a.error, data |-> a.data],
                  ![i].ins = IF q.kind = "insert" /\ ~a.error THEN nextId ELSE @,
                  ![i].seen = Some(a.db[q.table])]
             /\ stats' = [stats EXCEPT
                  !.served = IF IsWrite(q) THEN Bump(@, q.table) ELSE @,
                  !.inserted = IF q.kind = "insert" /\ ~a.error
                               THEN Bump(@, q.table) ELSE @]
        \/ /\ stats.failures < MaxFailures
           /\ tasks' = [tasks EXCEPT ![i].st = "answered", ![i].ans = Failed]
           /\ stats' = [stats EXCEPT
                !.failures = @ + 1,
                !.served = IF IsWrite(q) THEN Bump(@, q.table) ELSE @]
           /\ UNCHANGED <<db, nextId>>
  /\ UNCHANGED <<resp, scope, recVars, user, now, activeTab, dash, view, log>>

\* ------------------------------------------------------------ the views
\* The Dashboard shows one tab's component at a time, and none while its own
\* loading flag is set. A handler of a component that was unmounted goes on
\* running, but its state updates are dropped (task.live = FALSE).

Uid == Get(user)

Today == DayOf(now)

\* An <input> left empty ('').
EmptyInput == -1

ViewHandlers ==
  {"loadWeightLogs", "WeightTracking.handleSubmit", "WeightTracking.handleDelete",
   "loadMeasurements", "MeasurementTracking.handleSubmit",
   "MeasurementTracking.handleDelete", "loadFoods", "loadMealLogs", "handleLogMeal",
   "handleDeleteMeal", "loadLatestRecommendation", "generateRecommendation",
   "Profile.handleSubmit", "loadProgressData"}

\* Profile: formData, taken from the profile prop when there is one.
ProfileForm(prof) ==
  IF IsSome(prof)
  THEN [name |-> Get(prof).name, goal_type |-> Get(prof).goal_type,
        daily_calorie_target |-> Get(prof).daily_calorie_target]
  ELSE [name |-> "", goal_type |-> "maintenance", daily_calorie_target |-> 2000]

\* The useState initial values of a tab's form.
InitialForm(tab, prof, today) ==
  CASE tab = "weight" -> [weight |-> EmptyInput, date |-> today]
    [] tab = "measurements" ->
         [date |-> today, waist |-> EmptyInput, chest |-> EmptyInput,
          arms |-> EmptyInput, hips |-> EmptyInput, thighs |-> EmptyInput]
    [] tab = "meals" ->
         [selectedFood |-> None, servings |-> 10, category |-> "breakfast"]
    [] tab = "profile" -> ProfileForm(prof)
    [] tab = "progress" -> [period |-> "week"]
    [] OTHER -> [none |-> 0]

\* The useState initial values of a tab's component.
InitialView(tab, prof, today) ==
  [tab |-> tab, loading |-> FALSE, weightLogs |-> <<>>, measurements |-> <<>>,
   mealLogs |-> <<>>, foods |-> <<>>, recommendation |-> None,
   dailyCalories |-> <<>>, form |-> InitialForm(tab, prof, today)]

\* No tab component is mounted.
NoView == InitialView("none", None, 0)

\* The requests of a component's mount effect (useEffect(..., [])).
MountTasks(tab, today, uid) ==
  CASE tab = "weight" -> <<NewTask("loadWeightLogs", SelectReq("list", "weight_logs", 0))>>
    [] tab = "measurements" ->
         <<NewTask("loadMeasurements", SelectReq("list", "measurements", 0))>>
    [] tab = "meals" ->
         <<NewTask("loadFoods", SelectReq("foods", "food_items", 0)),
           NewTask("loadMealLogs", SelectReq("meal_logs", "meal_logs", today))>>
    [] tab = "dashboard" ->
         <<NewTask("loadLatestRecommendation",
                   SelectReq("latest_recommendation", "ai_recommendations", 0))>>
    [] OTHER -> <<>>

\* The client state a handler step works on.
Cur == [dash |-> dash, view |-> view, tasks |-> tasks, log |-> log, stats |-> stats]

Commit(cs) ==
  /\ dash' = cs.dash
  /\ view' = cs.view
  /\ tasks' = cs.tasks
  /\ log' = cs.log
  /\ stats' = cs.stats

RemoveAt(ts, i) == [k \in 1..(Len(ts) - 1) |-> IF k < i THEN ts[k] ELSE ts[k + 1]]

\* The handler of task i returns.
Return(cs, i) == [cs EXCEPT !.tasks = RemoveAt(@, i)]

\* The handler of task i awaits its next request.
Await(cs, i, pc, q) ==
  [cs EXCEPT !.tasks[i].pc = pc, !.tasks[i].st = "sent", !.tasks[i].req = q]

\* setX(value) by the handler of task i: dropped once its component is gone.
SetView(cs, i, field, value) ==
  IF cs.tasks[i].live THEN [cs EXCEPT !.view[field] = value] ELSE cs

\* console.error(message, error)
LogError(cs, message) == [cs EXCEPT !.log = Append(@, message)]

\* The tab's component is removed: its handlers in flight lose their component.
Unmount(cs) ==
  [cs EXCEPT
     !.view = NoView,
     !.tasks = [k \in DOMAIN @ |->
                  IF @[k].h \in ViewHandlers THEN [@[k] EXCEPT !.live = FALSE] ELSE @[k]]]

\* The tab's component is created and its mount effect runs.
Mount(cs, tab, today) ==
  [cs EXCEPT
     !.view = InitialView(tab, cs.dash.profile, today),
     !.tasks = @ \o (IF IsSome(user) THEN MountTasks(tab, today, Uid) ELSE <<>>)]

\* Dashboard.loadDashboardData up to its first await (lines 27-36).
CallLoadDashboardData(cs) ==
  IF ~IsSome(user) THEN cs
  ELSE LET c1 == IF cs.dash.loading THEN cs ELSE Unmount(cs)
       IN [c1 EXCEPT
             !.dash.loading = TRUE,
             !.tasks = Append(@, NewTask("loadDashboardData",
                                         SelectReq("profile", "users_profiles", 0)))]

\* Dashboard: setLoading(false); the tab's component appears again.
DashSetLoadingFalse(cs) ==
  IF cs.dash.loading
  THEN Mount([cs EXCEPT !.dash.loading = FALSE], activeTab, Today)
  ELSE cs

\* Sum of column * servings over the meals with a food item, rounded
\* (servings in tenths).
RoundedTotal(meals, col, unit) == RoundDiv(TotalOf(meals, col, WithFood(meals)), unit)

\* Dashboard.loadDashboardData after an answer (lines 36-80).
loadDashboardData(cs, i) ==
  LET t == cs.tasks[i]
  IN CASE t.pc = 1 ->
            LET c1 == [cs EXCEPT !.dash.profile = t.ans.data]
                c2 == IF c1.view.tab = "profile" /\ IsSome(t.ans.data)
                      THEN [c1 EXCEPT !.view.form = ProfileForm(t.ans.data)]
                      ELSE c1
            IN Await(c2, i, 2, SelectReq("today_meals", "meal_logs", Today))
       [] t.pc = 2 ->
            LET c1 == IF IsSome(t.ans.data)
                      THEN [cs EXCEPT !.dash.todayCalories =
                                         RoundedTotal(Get(t.ans.data), "calories", 10)]
                      ELSE cs
            IN Await(c1, i, 3, SelectReq("recent_weight", "weight_logs", 0))
       [] t.pc = 3 ->
            LET c1 == [cs EXCEPT !.dash.recentWeight =
                                    IF IsSome(t.ans.data) THEN Some(Get(t.ans.data).weight)
                                    ELSE None]
            IN Return(DashSetLoadingFalse(c1), i)

\* if (data) setX(data), the tail of loadWeightLogs, loadMeasurements,
\* loadMealLogs and loadFoods.
LoadDone(cs, i, field) ==
  IF IsSome(cs.tasks[i].ans.data)
  THEN SetView(cs, i, field, Get(cs.tasks[i].ans.data))
  ELSE cs

\* if (data) setRecommendation(data), the tail of loadLatestRecommendation.
LatestDone(cs, i) ==
  IF IsSome(cs.tasks[i].ans.data)
  THEN SetView(cs, i, "recommendation", cs.tasks[i].ans.data)
  ELSE cs

\* The mount-effect loads after their answer.
loadWeightLogs(cs, i) == Return(LoadDone(cs, i, "weightLogs"), i)

loadMeasurements(cs, i) == Return(LoadDone(cs, i, "measurements"), i)

loadMealLogs(cs, i) == Return(LoadDone(cs, i, "mealLogs"), i)

loadFoods(cs, i) == Return(LoadDone(cs, i, "foods"), i)

loadLatestRecommendation(cs, i) == Return(LatestDone(cs, i), i)

\* History: what the view showed when the handler of task i had set its list
\* from its reload (nothing if the component was gone or no data came back).
Shown(cs, i, field) ==
  LET t == cs.tasks[i]
      x == cs.view[field]
  IN [cs EXCEPT !.stats.last =
        Some([h |-> t.h, id |-> t.ins, seen |-> t.seen, arg |-> t.req.arg,
              shown |-> IF t.live /\ IsSome(t.ans.data)
                        THEN Some(IF field = "recommendation" THEN {Get(x).id}
                                  ELSE {x[k].id : k \in DOMAIN x})
                        ELSE None])]

\* The catch block without the finally block.
CatchWithoutFinally(cs, i, message) == Return(LogError(cs, message), i)

\* A catch that also clears the form.
CatchFinallyClearForm(cs, i, message) ==
  Return(SetView(SetView(LogError(cs, message), i, "form",
                         InitialForm(cs.view.tab, None, Today)),
                 i, "loading", FALSE), i)

\* catch (error) { console.error(message, error) } finally { setLoading(false) }
CatchFinally(cs, i, message) ==
  Return(SetView(LogError(cs, message), i, "loading", FALSE), i)

\* catch (error) { console.error(message, error) } of the delete handlers.
Catch(cs, i, message) == Return(LogError(cs, message), i)

\* A handleSubmit that sends its insert again when it failed.
WeightHandleSubmitAgain(cs, i) ==
  LET t == cs.tasks[i]
  IN CASE t.pc = 1 ->
            IF t.ans.error THEN Await(cs, i, 1, t.req)
            ELSE Await(SetView(cs, i, "form", [weight |-> EmptyInput, date |-> Today]),
                       i, 2, SelectReq("list", "weight_logs", 0))
       [] t.pc = 2 ->
            Return(SetView(Shown(LoadDone(cs, i, "weightLogs"), i, "weightLogs"),
                           i, "loading", FALSE), i)

\* WeightTracking.handleSubmit after an answer (lines 38-51).
WeightHandleSubmit(cs, i) ==
  LET t == cs.tasks[i]
  IN CASE t.pc = 1 ->
            IF t.ans.error THEN CatchFinally(cs, i, "Error logging weight:")
            ELSE Await(SetView(cs, i, "form", [weight |-> EmptyInput, date |-> Today]),
                       i, 2, SelectReq("list", "weight_logs", 0))
       [] t.pc = 2 ->
            Return(SetView(Shown(LoadDone(cs, i, "weightLogs"), i, "weightLogs"),
                           i, "loading", FALSE), i)

\* WeightTracking.handleDelete after an answer (lines 61-65).
WeightHandleDelete(cs, i) ==
  LET t == cs.tasks[i]
  IN CASE t.pc = 1 ->
            IF t.ans.error THEN Catch(cs, i, "Error deleting weight log:")
            ELSE Await(cs, i, 2, SelectReq("list", "weight_logs", 0))
       [] t.pc = 2 -> Return(LoadDone(cs, i, "weightLogs"), i)

\* MeasurementTracking.handleSubmit after an answer (lines 52-67).
MeasurementHandleSubmit(cs, i) ==
  LET t == cs.tasks[i]
  IN CASE t.pc = 1 ->
            IF t.ans.error THEN CatchFinally(cs, i, "Error logging measurements:")
            ELSE Await(SetView(cs, i, "form", InitialForm("measurements", None, Today)),
                       i, 2, SelectReq("list", "measurements", 0))
       [] t.pc = 2 ->
            Return(SetView(Shown(LoadDone(cs, i, "measurements"), i, "measurements"),
                           i, "loading", FALSE), i)

\* MeasurementTracking.handleDelete after an answer (lines 77-81).
MeasurementHandleDelete(cs, i) ==
  LET t == cs.tasks[i]
  IN CASE t.pc = 1 ->
            IF t.ans.error THEN Catch(cs, i, "Error deleting measurement:")
            ELSE Await(cs, i, 2, SelectReq("list", "measurements", 0))
       [] t.pc = 2 -> Return(LoadDone(cs, i, "measurements"), i)

\* MealLogging.handleLogMeal after an answer (lines 76-88).
handleLogMeal(cs, i) ==
  LET t == cs.tasks[i]
  IN CASE t.pc = 1 ->
            IF t.ans.error THEN CatchFinally(cs, i, "Error logging meal:")
            ELSE Await(SetView(cs, i, "form",
                               [cs.view.form EXCEPT !.selectedFood = None,
                                                    !.servings = 10]),
                       i, 2, SelectReq("meal_logs", "meal_logs", Today))
       [] t.pc = 2 ->
            LET c1 == Shown(LoadDone(cs, i, "mealLogs"), i, "mealLogs")
                c2 == CallLoadDashboardData(c1)
            IN Return(SetView(c2, i, "loading", FALSE), i)

\* MealLogging.handleDeleteMeal after an answer (lines 98-104).
handleDeleteMeal(cs, i) ==
  LET t == cs.tasks[i]
  IN CASE t.pc = 1 ->
            IF t.ans.error THEN Catch(cs, i, "Error deleting meal:")
            ELSE Await(cs, i, 2, SelectReq("meal_logs", "meal_logs", Today))
       [] t.pc = 2 -> Return(CallLoadDashboardData(LoadDone(cs, i, "mealLogs")), i)

\* AIRecommendation.generateRecommendation after an answer (lines 465-498).
generateRecommendation(cs, i) ==
  LET t == cs.tasks[i]
  IN CASE t.pc = 1 ->
            Await([cs EXCEPT !.tasks[i].acc.profile = t.ans.data], i, 2,
                  SelectReq("recent_meals", "meal_logs", now - 7 * TicksPerDay))
       [] t.pc = 2 ->
            Await([cs EXCEPT !.tasks[i].acc.meals = t.ans.data], i, 3,
                  SelectReq("last_two_weights", "weight_logs", 0))
       [] t.pc = 3 ->
            Await(cs, i, 4,
                  InsertReq("ai_recommendations",
                            [user_id |-> Uid,
                             recommendation_text |->
                               analyzeAndRecommend(t.acc.profile, t.acc.meals, t.ans.data),
                             date |-> Today]))
       [] t.pc = 4 ->
            IF t.ans.error THEN CatchFinally(cs, i, "Error generating recommendation:")
            ELSE Await(cs, i, 5,
                       SelectReq("latest_recommendation", "ai_recommendations", 0))
       [] t.pc = 5 ->
            LET c1 == Shown(LatestDone(cs, i), i, "recommendation")
                c2 == CallLoadDashboardData(c1)
            IN Return(SetView(c2, i, "loading", FALSE), i)

\* Profile.handleSubmit after the answer (lines 46-53).
ProfileHandleSubmit(cs, i) ==
  IF cs.tasks[i].ans.error THEN CatchFinally(cs, i, "Error updating profile:")
  ELSE Return(SetView(CallLoadDashboardData(cs), i, "loading", FALSE), i)

\* ProgressCharts: daysBack of a period (line 267).
daysBack(period) ==
  CASE period = "week" -> 7 [] period = "month" -> 30 [] period = "year" -> 365

\* startDate (lines 268-269), as a moment.
StartDate(period) == now - daysBack(period) * TicksPerDay

\* ProgressCharts.loadProgressData after an answer (lines 278-301); both
\* queries use the startDate computed when it was called.
loadProgressData(cs, i) ==
  LET t == cs.tasks[i]
  IN CASE t.pc = 1 ->
            Await(LoadDone(cs, i, "weightLogs"), i, 2,
                  SelectReq("progress_meals", "meal_logs", t.req.arg))
       [] t.pc = 2 ->
            Return(IF IsSome(t.ans.data)
                   THEN SetView(cs, i, "dailyCalories", dailyCalories(Get(t.ans.data)))
                   ELSE cs, i)

\* The handler of task i runs from the answer it awaited to its next await or
\* its end.
Resume(cs, i) ==
  LET h == cs.tasks[i].h
  IN CASE h = "loadDashboardData" -> loadDashboardData(cs, i)
       [] h = "loadWeightLogs" -> loadWeightLogs(cs, i)
       [] h = "loadMeasurements" -> loadMeasurements(cs, i)
       [] h = "loadMealLogs" -> loadMealLogs(cs, i)
       [] h = "loadFoods" -> loadFoods(cs, i)
       [] h = "loadLatestRecommendation" -> loadLatestRecommendation(cs, i)
       [] h = "WeightTracking.handleSubmit" -> WeightHandleSubmit(cs, i)
       [] h = "WeightTracking.handleDelete" -> WeightHandleDelete(cs, i)
       [] h = "MeasurementTracking.handleSubmit" -> MeasurementHandleSubmit(cs, i)
       [] h = "MeasurementTracking.handleDelete" -> MeasurementHandleDelete(cs, i)
       [] h = "handleLogMeal" -> handleLogMeal(cs, i)
       [] h = "handleDeleteMeal" -> handleDeleteMeal(cs, i)
       [] h = "generateRecommendation" -> generateRecommendation(cs, i)
       [] h = "Profile.handleSubmit" -> ProfileHandleSubmit(cs, i)
       [] h = "loadProgressData" -> loadProgressData(cs, i)

\* The answer to the request of task i reaches its handler.
Deliver(i) ==
  /\ tasks[i].st = "answered"
  /\ Commit(Resume([Cur EXCEPT !.stats.errors =
                                  IF tasks[i].ans.error THEN @ + 1 ELSE @], i))
  /\ UNCHANGED <<db, nextId, resp, scope, recVars, user, now, activeTab>>

\* WeightTracking's render, lines 68-70: weightChange of the list shown.
WeightTrackingChange(weightLogs) ==
  IF Len(weightLogs) >= 2
  THEN weightLogs[1].weight - weightLogs[Len(weightLogs)].weight
  ELSE 0

\* Line 117: the Progress panel is rendered.
ProgressShown(weightLogs) == Len(weightLogs) >= 2

\* ------------------------------------------------------- the user's steps
\* What the user enters in a form is chosen when the form is submitted.

MaxPick == 2       \* the user picks among the first rows listed

WeightInputs == {700}

WaistInputs == {EmptyInput, 800}

PickedFoods == {101}

TargetInputs == {1500}

\* The date inputs have max = today: today, and a day before the last ListLimit.
FormDates(today) == {today, today - ListLimit}

\* formData.waist ? parseFloat(formData.waist) : null
ToNumeric(v) == IF v = EmptyInput THEN NullNum ELSE v

ModelledTabs == {"dashboard", "meals", "weight", "measurements", "profile"}

\* The options of Profile's goal select.
GoalOptions == {"weight_loss", "muscle_gain", "maintenance"}

\* A category select with a fifth option.
CategoryOptionsWithBrunch == {"breakfast", "brunch", "lunch", "dinner", "snack"}

\* The options of MealLogging's category select.
CategoryOptions == {"breakfast", "lunch", "dinner", "snack"}

\* The tab's component is shown and the user may start one more operation.
CanAct(tab) ==
  /\ IsSome(user)
  /\ ~dash.loading
  /\ view.tab = tab
  /\ stats.left > 0

\* Handler h starts and awaits its first request q.
Started(cs, h, q) ==
  [cs EXCEPT !.tasks = Append(@, NewTask(h, q)), !.stats.left = @ - 1]

\* A handler that writes to table t was invoked; submit: by a form.
Invoked(cs, t, submit) ==
  [cs EXCEPT !.stats.invoked = Bump(@, t),
             !.stats.submits = IF submit THEN Bump(@, t) ELSE @]

ClientFrame == UNCHANGED <<db, nextId, resp, scope, recVars, user, now, activeTab>>

\* WeightTracking.handleSubmit up to its await (lines 30-39); the button is
\* disabled while loading.
SubmitWeight ==
  /\ CanAct("weight") /\ ~view.loading
  /\ \E w \in WeightInputs, d \in FormDates(Today) :
       Commit(Started(Invoked([Cur EXCEPT !.view.form = [weight |-> w, date |-> d],
                                          !.view.loading = TRUE],
                              "weight_logs", TRUE),
                      "WeightTracking.handleSubmit",
                      InsertReq("weight_logs",
                                [user_id |-> Uid, weight |-> w, date |-> d])))
  /\ ClientFrame

\* WeightTracking.handleDelete up to its await (lines 54-59).
DeleteWeight ==
  /\ CanAct("weight")
  /\ \E k \in DOMAIN view.weightLogs :
       /\ k <= MaxPick
       /\ Commit(Started(Invoked(Cur, "weight_logs", FALSE),
                         "WeightTracking.handleDelete",
                         DeleteReq("weight_logs", view.weightLogs[k].id)))
  /\ ClientFrame

\* MeasurementTracking.handleSubmit up to its await (lines 36-50).
SubmitMeasurement ==
  /\ CanAct("measurements") /\ ~view.loading
  /\ \E w \in WaistInputs, d \in FormDates(Today) :
       Commit(Started(Invoked([Cur EXCEPT
                                 !.view.form = [@ EXCEPT !.date = d, !.waist = w],
                                 !.view.loading = TRUE],
                              "measurements", TRUE),
                      "MeasurementTracking.handleSubmit",
                      InsertReq("measurements",
                                [user_id |-> Uid, date |-> d, waist |-> ToNumeric(w),
                                 chest |-> ToNumeric(view.form.chest),
                                 arms |-> ToNumeric(view.form.arms),
                                 hips |-> ToNumeric(view.form.hips),
                                 thighs |-> ToNumeric(view.form.thighs)])))
  /\ ClientFrame

\* MeasurementTracking.handleDelete up to its await (lines 70-75).
DeleteMeasurement ==
  /\ CanAct("measurements")
  /\ \E k \in DOMAIN view.measurements :
       /\ k <= MaxPick
       /\ Commit(Started(Invoked(Cur, "measurements", FALSE),
                         "MeasurementTracking.handleDelete",
                         DeleteReq("measurements", view.measurements[k].id)))
  /\ ClientFrame

\* MealLogging.handleLogMeal up to its await (lines 63-74); the button is
\* disabled without a selected food and while loading.
LogMeal ==
  /\ CanAct("meals") /\ ~view.loading
  /\ \E k \in DOMAIN view.foods :
       /\ view.foods[k].id \in PickedFoods
       /\ Commit(Started(Invoked([Cur EXCEPT
                                    !.view.form.selectedFood = Some(view.foods[k]),
                                    !.view.loading = TRUE],
                                 "meal_logs", TRUE),
                         "handleLogMeal",
                         InsertReq("meal_logs",
                                   [user_id |-> Uid, food_id |-> view.foods[k].id,
                                    servings |-> view.form.servings,
                                    category |-> view.form.category,
                                    logged_at |-> now])))
  /\ ClientFrame

\* MealLogging's category select: setCategory(e.target.value).
SelectCategory ==
  /\ CanAct("meals")
  /\ \E c \in CategoryOptions \ {view.form.category} :
       view' = [view EXCEPT !.form.category = c]
  /\ UNCHANGED <<dash, tasks, log, stats>>
  /\ ClientFrame

\* MealLogging.handleDeleteMeal up to its await (lines 91-96).
DeleteMeal ==
  /\ CanAct("meals")
  /\ \E k \in DOMAIN view.mealLogs :
       /\ k <= MaxPick
       /\ Commit(Started(Invoked(Cur, "meal_logs", FALSE),
                         "handleDeleteMeal",
                         DeleteReq("meal_logs", view.mealLogs[k].id)))
  /\ ClientFrame

\* AIRecommendation.generateRecommendation up to its first await (lines
\* 455-464); the buttons are disabled while loading.
Generate ==
  /\ CanAct("dashboard") /\ ~view.loading
  /\ Commit(Started(Invoked([Cur EXCEPT !.view.loading = TRUE],
                            "ai_recommendations", TRUE),
                    "generateRecommendation",
                    SelectReq("profile", "users_profiles", 0)))
  /\ ClientFrame

\* The names the form is submitted with: the one it holds, or one the user
\* types into the empty required field.
NameInputs(name) == IF name = "" THEN {"Bea"} ELSE {name}

\* Profile.handleSubmit up to its await (lines 30-44); the name is required.
SubmitProfile ==
  /\ CanAct("profile") /\ ~view.loading
  /\ \E g \in GoalOptions, c \in TargetInputs, n \in NameInputs(view.form.name) :
       LET form == [view.form EXCEPT !.name = n, !.goal_type = g,
                                     !.daily_calorie_target = c]
       IN Commit(Started(Invoked([Cur EXCEPT !.view.form = form,
                                             !.view.loading = TRUE],
                                 "users_profiles", TRUE),
                         "Profile.handleSubmit",
                         UpdateReq("users_profiles", Uid,
                                   [name |-> form.name, goal_type |-> form.goal_type,
                                    daily_calorie_target |-> form.daily_calorie_target])))
  /\ ClientFrame

Periods == {"week", "month", "year"}

\* ProgressCharts: setPeriod(p) on a period button; the effect on [period]
\* calls loadProgressData, which runs up to its first await (lines 260-276).
SetPeriod ==
  /\ CanAct("progress")
  /\ \E p \in Periods \ {view.form.period} :
       Commit(Started([Cur EXCEPT !.view.form.period = p], "loadProgressData",
                      SelectReq("progress_weights", "weight_logs", StartDate(p))))
  /\ ClientFrame

\* Dashboard: setActiveTab(tab); the tab bar is not rendered while loading.
SwitchTab ==
  /\ IsSome(user)
  /\ ~dash.loading
  /\ stats.switches < MaxSwitches
  /\ \E tab \in ModelledTabs \ {activeTab} :
       /\ activeTab' = tab
       /\ Commit(Mount(Unmount([Cur EXCEPT !.stats.switches = @ + 1]), tab, Today))
  /\ UNCHANGED <<db, nextId, resp, scope, recVars, user, now>>

\* Time passes.
Tick ==
  /\ stats.ticks < MaxTicks
  /\ now' = now + 1
  /\ stats' = [stats EXCEPT !.ticks = @ + 1]
  /\ UNCHANGED <<db, nextId, resp, scope, recVars, user, activeTab, dash, view, tasks,
                 log>>

\* ------------------------------------------------------- the views' steps

ServeRequest == \E i \in DOMAIN tasks : Serve(i)

AfterLoadDashboardData ==
  \E i \in DOMAIN tasks : tasks[i].h = "loadDashboardData" /\ Deliver(i)

AfterLoadWeightLogs ==
  \E i \in DOMAIN tasks : tasks[i].h = "loadWeightLogs" /\ Deliver(i)

AfterLoadMeasurements ==
  \E i \in DOMAIN tasks : tasks[i].h = "loadMeasurements" /\ Deliver(i)

AfterLoadMealLogs ==
  \E i \in DOMAIN tasks : tasks[i].h = "loadMealLogs" /\ Deliver(i)

AfterLoadFoods ==
  \E i \in DOMAIN tasks : tasks[i].h = "loadFoods" /\ Deliver(i)

AfterLoadLatestRecommendation ==
  \E i \in DOMAIN tasks : tasks[i].h = "loadLatestRecommendation" /\ Deliver(i)

AfterSubmitWeight ==
  \E i \in DOMAIN tasks : tasks[i].h = "WeightTracking.handleSubmit" /\ Deliver(i)

AfterDeleteWeight ==
  \E i \in DOMAIN tasks : tasks[i].h = "WeightTracking.handleDelete" /\ Deliver(i)

AfterSubmitMeasurement ==
  \E i \in DOMAIN tasks : tasks[i].h = "MeasurementTracking.handleSubmit" /\ Deliver(i)

AfterDeleteMeasurement ==
  \E i \in DOMAIN tasks : tasks[i].h = "MeasurementTracking.handleDelete" /\ Deliver(i)

AfterLogMeal ==
  \E i \in DOMAIN tasks : tasks[i].h = "handleLogMeal" /\ Deliver(i)

AfterDeleteMeal ==
  \E i \in DOMAIN tasks : tasks[i].h = "handleDeleteMeal" /\ Deliver(i)

AfterGenerate ==
  \E i \in DOMAIN tasks : tasks[i].h = "generateRecommendation" /\ Deliver(i)

AfterLoadProgressData ==
  \E i \in DOMAIN tasks : tasks[i].h = "loadProgressData" /\ Deliver(i)

AfterSubmitProfile ==
  \E i \in DOMAIN tasks : tasks[i].h = "Profile.handleSubmit" /\ Deliver(i)

\* ------------------------------------------------------ the signed-in user

ProfileOf(u) ==
  [id |-> u, name |-> "Ann", goal_type |-> "weight_loss",
   daily_calorie_target |-> 2000]

\* The store of a user who logged n weights and n measurements on the last n
\* days, a meal today, and generated a recommendation today before logging
\* anything; another user has rows too.
ViewStore(n) ==
  [MigratedDb EXCEPT
     !["users_profiles"] = {ProfileOf(u) : u \in Users},
     !["weight_logs"] =
        {[id |-> 200 + k, user_id |-> "u1", weight |-> 700 + k, date |-> 0 - k] :
           k \in 0..(n - 1)}
        \cup {[id |-> 290, user_id |-> "u2", weight |-> 650, date |-> 0]},
     !["measurements"] =
        {[id |-> 300 + k, user_id |-> "u1", date |-> 0 - k, waist |-> 800,
          chest |-> NullNum, arms |-> NullNum, hips |-> NullNum,
          thighs |-> NullNum] : k \in 0..(n - 1)},
     !["meal_logs"] =
        {[id |-> 401, user_id |-> "u1", food_id |-> 101, servings |-> 10,
          category |-> "breakfast", logged_at |-> 0]},
     !["ai_recommendations"] =
        {[id |-> 501, user_id |-> "u1",
          recommendation_text |->
            analyzeAndRecommend(Some(ProfileOf("u1")), Some(<<>>), Some(<<>>)),
          date |-> 0]}]

\* History at the start: the user will start up to n operations.
NoStats(n) ==
  [left |-> n, switches |-> 0, ticks |-> 0, failures |-> 0, errors |-> 0,
   invoked |-> [t \in Tables |-> 0], submits |-> [t \in Tables |-> 0],
   served |-> [t \in Tables |-> 0], inserted |-> [t \in Tables |-> 0],
   last |-> None]

\* Dashboard right after its first render: loading, with the loadDashboardData
\* of its mount effect awaiting the profile.
InitSession(stores) ==
  /\ db \in stores
  /\ nextId = 1
  /\ resp = NoResp /\ scope = {} /\ RecIdle
  /\ user = Some("u1")
  /\ now = TicksPerDay - 1
  /\ activeTab = "dashboard"
  /\ dash = [loading |-> TRUE, profile |-> None, todayCalories |-> 0,
             recentWeight |-> None]
  /\ view = NoView
  /\ tasks = <<NewTask("loadDashboardData", SelectReq("profile", "users_profiles", 0))>>
  /\ log = <<>>
  /\ stats = NoStats(AppOps)

InitViews == InitSession({ViewStore(1)})

\* A session across the tabs within one day (the clock's steps are taken in the
\* logging views below, where the day matters).
NextViews ==
  \/ ServeRequest
  \/ AfterLoadDashboardData
  \/ AfterLoadWeightLogs
  \/ AfterLoadMeasurements
  \/ AfterLoadMealLogs
  \/ AfterLoadFoods
  \/ AfterLoadLatestRecommendation
  \/ AfterSubmitWeight
  \/ AfterDeleteWeight
  \/ AfterSubmitMeasurement
  \/ AfterDeleteMeasurement
  \/ AfterLogMeal
  \/ AfterDeleteMeal
  \/ AfterGenerate
  \/ AfterSubmitProfile
  \/ SubmitWeight
  \/ DeleteWeight
  \/ SubmitMeasurement
  \/ DeleteMeasurement
  \/ LogMeal
  \/ DeleteMeal
  \/ Generate
  \/ SubmitProfile
  \/ SwitchTab

SpecViews == InitViews /\ [][NextViews]_vars

\* A request is answered, or an answer reaches its handler.
Progress == ServeRequest \/ \E i \in DOMAIN tasks : Deliver(i)

\* While requests are awaited, the store and the event loop go on: every
\* request is answered and every answer reaches its handler.
SpecViewsFair == InitViews /\ [][NextViews]_vars /\ WF_vars(Progress)

\* ------------------------------------------------------ profiles
\* A session of a user with a profile row, or of one who signed in without.

NoProfileStore ==
  [ViewStore(1) EXCEPT !["users_profiles"] = {p \in @ : p.id # "u1"}]

InitProfiles == InitSession({ViewStore(1), NoProfileStore})

SpecProfiles == InitProfiles /\ [][NextViews]_vars

\* ------------------------------------------------------ recommendations
\* analyzeAndRecommend on arguments of every shape on the one hand, a session
\* in which generateRecommendation calls it on what it fetched on the other.

InitRecommend == InitRec \/ InitViews

NextRecommend == NextRec \/ NextViews

SpecRecommend == InitRecommend /\ [][NextRecommend]_vars

\* ------------------------------------------------------ forms and checks
\* The table owner's statements on the one hand, a session in which the user
\* also works the category select on the other.

InitChecks == InitSchema \/ InitViews

NextChecks == NextSchema \/ NextViews \/ SelectCategory

SpecChecks == InitChecks /\ [][NextChecks]_vars

\* ------------------------------------------------------ the logging views
\* WeightTracking, MeasurementTracking and MealLogging, each from its mount.

LoggingTabs == {"weight", "measurements", "meals"}

\* The Dashboard states loadDashboardData leaves behind on store d.
LoadedDash(d, u, today) ==
  {[loading |-> FALSE, profile |-> p,
    todayCalories |-> RoundedTotal(m, "calories", 10),
    recentWeight |-> IF IsSome(w) THEN Some(Get(w).weight) ELSE None] :
     p \in ProfileQuery(d, u), m \in TodayMealsQuery(d, u, today),
     w \in RecentWeightQuery(d, u)}

\* The user has opened one of the logging tabs: its component has just been
\* created and its mount effect has sent its requests.
InitLists ==
  /\ db \in {ViewStore(1), ViewStore(ListLimit)}
  /\ nextId = 1
  /\ resp = NoResp /\ scope = {} /\ RecIdle
  /\ user = Some("u1")
  /\ now = TicksPerDay - 1
  /\ activeTab \in LoggingTabs
  /\ dash \in LoadedDash(db, "u1", 0)
  /\ view = InitialView(activeTab, dash.profile, 0)
  /\ tasks = MountTasks(activeTab, 0, "u1")
  /\ log = <<>>
  /\ stats = NoStats(MaxOps)

NextLists ==
  \/ ServeRequest
  \/ AfterLoadDashboardData
  \/ AfterLoadWeightLogs
  \/ AfterLoadMeasurements
  \/ AfterLoadMealLogs
  \/ AfterLoadFoods
  \/ AfterSubmitWeight
  \/ AfterDeleteWeight
  \/ AfterSubmitMeasurement
  \/ AfterDeleteMeasurement
  \/ AfterLogMeal
  \/ AfterDeleteMeal
  \/ SubmitWeight
  \/ DeleteWeight
  \/ SubmitMeasurement
  \/ DeleteMeasurement
  \/ LogMeal
  \/ DeleteMeal
  \/ Tick

SpecLists == InitLists /\ [][NextLists]_vars

\* ------------------------------------------------------ the progress view
\* ProgressCharts from its mount, on the store of a user with 30 daily weights.

InitProgress ==
  /\ db = ViewStore(ListLimit)
  /\ nextId = 1
  /\ resp = NoResp /\ scope = {} /\ RecIdle
  /\ user = Some("u1")
  /\ now = TicksPerDay - 1
  /\ activeTab = "progress"
  /\ dash \in LoadedDash(db, "u1", 0)
  /\ view = InitialView("progress", dash.profile, 0)
  /\ tasks = <<NewTask("loadProgressData",
                       SelectReq("progress_weights", "weight_logs",
                                 StartDate("week")))>>
  /\ log = <<>>
  /\ stats = NoStats(MaxOps)

NextProgress ==
  \/ ServeRequest
  \/ AfterLoadProgressData
  \/ SetPeriod

SpecProgress == InitProgress /\ [][NextProgress]_vars

\* ------------------------------------------------ claims about the store

\* The tables with a user-identifier column.
OwnedTables == Tables \ {"food_items"}

WriteCommands == {"INSERT", "UPDATE", "DELETE"}

\* The rows of t a step adds, removes or replaces.
Touched(t) == (db[t] \ db'[t]) \cup (db'[t] \ db[t])

SelectReturnsOwnRows ==
  (resp.cmd = "SELECT" /\ resp.table \in OwnedTables) =>
    /\ \A r \in resp.rows : OwnerOf(resp.table, r) = resp.caller
    /\ \A r \in db[resp.table] : OwnerOf(resp.table, r) = resp.caller => r \in resp.rows

WriteTouchesOwnRows ==
  /\ \A t \in OwnedTables : \A r \in Touched(t) : OwnerOf(t, r) = resp'.caller
  /\ (/\ resp'.cmd \in WriteCommands
      /\ resp'.table \in OwnedTables
      /\ resp'.aimed # {}
      /\ resp'.caller \notin resp'.aimed) => db' = db

\* C1: row-level isolation. On users_profiles, meal_logs, weight_logs,
\* measurements and ai_recommendations a select by caller u returns only rows
\* owned by u, every row a write by u adds, removes or replaces is owned by u,
\* and a write aimed at another user's row leaves the store unchanged.
C1_RowIsolation == []SelectReturnsOwnRows /\ [][WriteTouchesOwnRows]_vars

\* C1 witness: a delete aimed at another user's weight log was answered and
\* the row is still stored.
C1_Witness ==
  /\ resp.cmd = "DELETE"
  /\ resp.table = "weight_logs"
  /\ resp.aimed # {}
  /\ resp.caller \notin resp.aimed
  /\ \E r \in db["weight_logs"] : r.user_id \in resp.aimed

\* C7: the food catalog is globally readable and insertable. A select on
\* food_items returns every row to every caller, and an insert with a name and
\* a barcode not already present succeeds, whoever the caller is.
C7_FoodCatalogOpen ==
  /\ (resp.cmd = "SELECT" /\ resp.table = "food_items") =>
       resp.rows = db["food_items"]
  /\ (resp.cmd = "INSERT" /\ resp.table = "food_items" /\ resp.named) =>
       ~resp.error /\ resp.rows \subseteq db["food_items"]

\* C7 witness: u1 reads a food item that is not a sample row, after u2's
\* select returned it as well or not: the row with barcode 777 was inserted by
\* a caller and is returned to u1.
C7_Witness ==
  /\ resp.cmd = "SELECT"
  /\ resp.table = "food_items"
  /\ resp.caller = "u1"
  /\ \E r \in resp.rows : r.barcode = "777"

\* C8 (as claimed): an insert into ai_recommendations succeeds whatever
\* user_id the new row carries, and a select returns only the caller's rows.
C8_InsertForAnyUser ==
  /\ (resp.cmd = "INSERT" /\ resp.table = "ai_recommendations") => ~resp.error
  /\ (resp.cmd = "SELECT" /\ resp.table = "ai_recommendations") =>
       \A r \in resp.rows : r.user_id = resp.caller

\* ------------------------------------------ claims about the evaluator

CalorieKinds == {"below_target", "exceeds_target", "aligned"}

\* The positions of the text holding a sentence of one of the kinds.
Positions(text, kinds) == {i \in DOMAIN text : text[i].kind \in kinds}

\* Total calories (in tenths) of the first n fetched meals, a meal without a
\* joined food item counting 0.
RECURSIVE CaloriesUpTo(_, _)
CaloriesUpTo(ms, n) ==
  IF n = 0 THEN 0
  ELSE CaloriesUpTo(ms, n - 1)
         + (IF ms[n].food_items = None THEN 0
            ELSE ms[n].food_items[1].calories * ms[n].servings)

\* Number of logged days, at least 1.
DayCount(ms) ==
  Max(Cardinality({ms[i].logged_at \div TicksPerDay :
                     i \in {j \in 1..Len(ms) : ms[j].food_items # None}}), 1)

\* C3: with a profile and at least one fetched meal the text holds exactly one
\* calorie sentence: 'below your target' iff avg < 0.8 * t, 'exceeds your
\* target' iff avg > 1.2 * t, 'aligned' otherwise (avg = total / days, in
\* tenths: avg * 10 * days = total); with no fetched meal it holds the 'Start
\* logging your meals' sentence and no calorie sentence.
C3_CalorieSentence ==
  (recOut # None /\ recIn.profile # None) =>
    LET text == recOut[1]
        t == recIn.profile[1].daily_calorie_target
        cal == Positions(text, CalorieKinds)
        start == Positions(text, {"start_logging"})
    IN IF recIn.meals # None /\ Len(recIn.meals[1]) > 0
       THEN LET total == CaloriesUpTo(recIn.meals[1], Len(recIn.meals[1]))
                days == DayCount(recIn.meals[1])
                below == 10 * total < 8 * t * 10 * days
                above == 10 * total > 12 * t * 10 * days
            IN /\ Cardinality(cal) = 1
               /\ start = {}
               /\ \A i \in cal :
                    /\ text[i].kind = "below_target" <=> below
                    /\ text[i].kind = "exceeds_target" <=> above
                    /\ text[i].kind = "aligned" <=> (~below /\ ~above)
       ELSE /\ cal = {}
            /\ Cardinality(start) = 1
            /\ Positions(text, {"increase_protein"}) = {}

\* C3 witness: the average is exactly 0.8 * t and the text says 'aligned'.
C3_Witness ==
  /\ recOut # None /\ recIn.profile # None /\ recIn.meals # None
  /\ Len(recIn.meals[1]) > 0
  /\ 10 * CaloriesUpTo(recIn.meals[1], Len(recIn.meals[1]))
       = 8 * recIn.profile[1].daily_calorie_target * 10 * DayCount(recIn.meals[1])
  /\ Positions(recOut[1], {"aligned"}) # {}

\* -------------------------------------------------- claims about the views

SubmitHandlers ==
  {"WeightTracking.handleSubmit", "MeasurementTracking.handleSubmit", "handleLogMeal"}

\* The last submit handler that finished its reload, if any.
LastSubmit ==
  IF IsSome(stats.last) /\ Get(stats.last).h \in SubmitHandlers
  THEN {Get(stats.last)} ELSE {}

\* The rows with the inserted id in the table as the reload saw it.
InsertedRow(x) == {r \in Get(x.seen) : r.id = x.id}

\* The reload leaves room for row r: fewer than ListLimit other rows of the user
\* are dated on or after it (weights, measurements); the reload's day is not
\* past the moment the meal was logged (meals).
RoomFor(x, r) ==
  IF x.h = "handleLogMeal" THEN r.logged_at >= x.arg * TicksPerDay
  ELSE Cardinality({o \in Get(x.seen) :
                      o.user_id = r.user_id /\ o.id # r.id /\ o.date >= r.date})
         < ListLimit

\* C2 as stated: once the reload of a successful submit has set the view's list
\* (the row not deleted meanwhile), the inserted row belongs to its user and is
\* in the list, whatever its date and however many rows the user has.
C2_InsertedRowListed ==
  \A x \in LastSubmit : \A r \in InsertedRow(x) :
    IsSome(x.shown) => r.user_id = Uid /\ x.id \in Get(x.shown)

\* C2, amended: once the reload of a successful submit has set the view's list,
\* the inserted row belongs to its user, and it is in the list if fewer than
\* ListLimit other rows of the user are dated on or after it (for a meal: if the
\* reload's day has not passed the moment it was logged).
C2_InsertedRowListedIfRoom ==
  \A x \in LastSubmit : \A r \in InsertedRow(x) :
    IsSome(x.shown) => r.user_id = Uid /\ (RoomFor(x, r) => x.id \in Get(x.shown))

\* A weight submitted by a user with ListLimit rows already is listed.
C2_Witness ==
  \E x \in LastSubmit : \E r \in InsertedRow(x) :
    /\ x.h = "WeightTracking.handleSubmit"
    /\ Cardinality(Get(x.seen)) > ListLimit
    /\ IsSome(x.shown) /\ x.id \in Get(x.shown)

\* C4: every failed request whose answer reached its handler left a log entry.
C4_FailuresLogged == Len(log) >= stats.errors

\* C5: a loading flag that is set, the view's or the Dashboard's, is reset
\* later, whether the requests of the handler that set it succeed or fail.
C5_LoadingReset ==
  /\ view.loading ~> ~view.loading
  /\ dash.loading ~> ~dash.loading

\* A submit failed, its handler has ended and the view is not loading.
C5_Witness ==
  /\ tasks = <<>>
  /\ log # <<>>
  /\ \E t \in Tables : stats.submits[t] > 0
  /\ view.tab \in {"weight", "measurements", "meals", "profile", "dashboard"}
  /\ ~view.loading /\ ~dash.loading

\* The rows of t the store created in this behaviour (a profile's id is its
\* user, and no view inserts one).
CreatedRows(t) == IF t = "users_profiles" THEN {} ELSE {r \in db[t] : r.id < nextId}

\* C6: a handler sends no more than one write per invocation, exactly one once
\* it has ended, and the rows inserted into a table are no more than the
\* submits of its form.
C6_NoRetry ==
  \A t \in Tables :
    /\ stats.served[t] <= stats.invoked[t]
    /\ tasks = <<>> => stats.served[t] = stats.invoked[t]
    /\ stats.inserted[t] <= stats.submits[t]
    /\ Cardinality(CreatedRows(t)) <= stats.submits[t]

\* A submit whose insert failed has ended and nothing was inserted.
C6_Witness ==
  /\ tasks = <<>>
  /\ stats.failures > 0
  /\ \E t \in Tables :
       stats.submits[t] > 0 /\ stats.served[t] = stats.submits[t]
         /\ stats.inserted[t] < stats.submits[t]

\* C9: once generateRecommendation has set the recommendation from its reload,
\* the recommendation shown is the row it inserted.
C9_ShowsNewRecommendation ==
  (/\ IsSome(stats.last)
   /\ Get(stats.last).h = "generateRecommendation"
   /\ IsSome(Get(stats.last).shown))
    => Get(stats.last).id \in Get(Get(stats.last).shown)

\* The load query of the view shown, on the store as it is.
ListMatchesStore ==
  CASE view.tab = "weight" -> view.weightLogs \in ListQuery(db, Uid, "weight_logs")
    [] view.tab = "measurements" ->
         view.measurements \in ListQuery(db, Uid, "measurements")
    [] view.tab = "meals" -> view.mealLogs \in MealLogsQuery(db, Uid, Today)
    [] OTHER -> TRUE

\* C10: when the user has issued MaxOps inserts and deletes, no request failed,
\* the day has not changed and every request has completed, the list of the
\* view is the view's load query on the store.
C10_ListMatchesStore ==
  (/\ tasks = <<>>
   /\ stats.left = 0
   /\ stats.failures = 0 /\ stats.errors = 0
   /\ stats.ticks = 0)
    => ListMatchesStore

\* ------------------------------------------------- claims about the schema

\* Every meal log references a food item and an account in the store.
MealLogsReferenced ==
  \A m \in db["meal_logs"] :
    /\ \E f \in db["food_items"] : f.id = m.food_id
    /\ \E a \in db[AuthUsers] : a.id = m.user_id

\* An insert of a meal log naming no food item is rejected, the store unchanged.
MealInsertRejected ==
  (/\ resp'.cmd = "INSERT" /\ resp'.table = "meal_logs"
   /\ \E r \in resp'.rows : \A f \in db["food_items"] : f.id # r.food_id)
    => resp'.error /\ db' = db

\* Deleting a food item removes exactly the meal logs that reference it.
FoodDeleteCascades ==
  (resp'.cmd = "DELETE" /\ resp'.table = "food_items")
    => \A f \in resp'.rows :
         db'["meal_logs"] = {m \in db["meal_logs"] : m.food_id # f.id}

\* Deleting an account removes exactly the rows that reference it.
UserDeleteCascades ==
  (resp'.cmd = "DELETE" /\ resp'.table = AuthUsers)
    => \A a \in resp'.rows :
         \A t \in Tables \ {"food_items"} :
           db'[t] = {r \in db[t] : OwnerOf(t, r) # a.id}

\* C11: referential integrity of meal_logs holds in every state, an insert
\* naming no food item is rejected without effect, and deleting a food item or
\* an account removes the rows referencing it.
C11_ReferentialIntegrity ==
  /\ []MealLogsReferenced
  /\ [][MealInsertRejected /\ FoodDeleteCascades /\ UserDeleteCascades]_vars

\* The sample food 101 was just deleted after a meal log (id 1) referencing it
\* had been inserted, and the meal log is gone.
C11_Witness ==
  /\ resp.cmd = "DELETE" /\ resp.table = "food_items"
  /\ \E f \in resp.rows : f.id = 101
  /\ nextId = 2
  /\ \A f \in db["food_items"] : f.id # 1
  /\ db["meal_logs"] = {}

\* No two food items carry the same non-null barcode.
BarcodesUnique ==
  \A f, g \in db["food_items"] :
    (f.id # g.id /\ f.barcode = g.barcode) => f.barcode = NULL

\* An insert with a barcode already present is rejected, the store unchanged.
BarcodeInsertRejected ==
  (/\ resp'.cmd = "INSERT" /\ resp'.table = "food_items"
   /\ \E r \in resp'.rows :
        r.barcode # NULL /\ \E f \in db["food_items"] : f.barcode = r.barcode)
    => resp'.error /\ db' = db

\* The sample-row insert applied right after itself changes nothing.
SamplesTwice ==
  (resp.cmd = "SAMPLES" /\ resp'.cmd = "SAMPLES") => db' = db

\* In every state, a second application of the sample-row insert leaves the
\* catalog as the first left it.
SamplesIdempotent ==
  InsertSampleFoods(InsertSampleFoods(db, nextId + 1), nextId + 2)
    = InsertSampleFoods(db, nextId + 1)

\* C12: barcodes are unique among the non-null ones in every state, an insert
\* with a barcode already present is rejected without effect, and the sample-row
\* insert applied a second time changes nothing.
C12_BarcodeUnique ==
  /\ [](BarcodesUnique /\ SamplesIdempotent)
  /\ [][BarcodeInsertRejected /\ SamplesTwice]_vars

\* The sample-row insert has put back a deleted sample under a new id, and an
\* insert carrying that sample's barcode was then rejected.
C12_Witness ==
  /\ \E f \in db["food_items"] : f.id > 200 /\ f.barcode = "1234567890001"
  /\ resp.cmd = "INSERT" /\ resp.table = "food_items" /\ resp.error
  /\ \E r \in resp.rows : r.name # NULL /\ r.barcode = "1234567890001"

\* ---------------------------------------------------------------------------
\* Claims about the entities' lifecycle
\* ---------------------------------------------------------------------------

\* The tables whose rows are only inserted and deleted.
InsertOnlyTables == {"meal_logs", "weight_logs", "measurements", "ai_recommendations"}

\* Every update a view has sent goes to users_profiles, from Profile.handleSubmit.
UpdatesOnlyProfile ==
  \A i \in DOMAIN tasks :
    tasks[i].req.kind = "update"
      => tasks[i].req.table = "users_profiles" /\ tasks[i].h = "Profile.handleSubmit"

\* A row present before and after a step has the same value in every column.
RowsKeepColumns ==
  \A t \in InsertOnlyTables :
    \A r \in db[t], r2 \in db'[t] : r.id = r2.id => r = r2

\* C13: the views send an update only to users_profiles, from
\* Profile.handleSubmit, and as long as a row of meal_logs, weight_logs,
\* measurements or ai_recommendations exists, every step leaves each of its
\* columns as inserted.
C13_NoLifecycle == []UpdatesOnlyProfile /\ [][RowsKeepColumns]_vars

\* The profile's update has changed the user's profile, and the user's logged
\* rows are in the store as they were.
C13_Witness ==
  /\ \E p \in db["users_profiles"] :
       p.id = "u1" /\ p # ProfileOf("u1")
  /\ stats.served["users_profiles"] = 1
  /\ \A t \in InsertOnlyTables : db[t] = ViewStore(1)[t] /\ db[t] # {}

\* ---------------------------------------------------------------------------
\* Claims about ProgressCharts
\* ---------------------------------------------------------------------------

\* The days on which some fetched meal was logged.
ChartDays == {DayOf(recIn.meals[i].logged_at) : i \in DOMAIN recIn.meals}

\* The fetched meals of day d that have a food item.
FedMealsOf(d) ==
  {i \in WithFood(recIn.meals) : DayOf(recIn.meals[i].logged_at) = d}

\* C14: dailyCalories has exactly one entry for each date among the fetched
\* meals, each entry's calories are the rounded sum of calories * servings over
\* the meals of its date that have a food item, and the entries' dates ascend
\* strictly.
C14_DailyTotals ==
  IsSome(recOut) =>
    LET out == Get(recOut)
    IN /\ {out[k].date : k \in DOMAIN out} = ChartDays
       /\ Len(out) = Cardinality(ChartDays)
       /\ \A k \in DOMAIN out :
            out[k].calories
              = RoundDiv(TotalOf(recIn.meals, "calories", FedMealsOf(out[k].date)), 10)
       /\ \A k \in 1..(Len(out) - 1) : out[k].date < out[k + 1].date

\* Three meals fetched latest first: two of one day, whose sum 232.5 rounds
\* up to 233, and one without a food item alone on its day.
C14_Witness ==
  /\ IsSome(recOut)
  /\ Len(recIn.meals) = 3
  /\ recIn.meals[1].logged_at = TicksPerDay /\ recIn.meals[1].food_items = None
  /\ recIn.meals[2].logged_at = 1 /\ recIn.meals[3].logged_at = 0
  /\ Get(recOut) = <<[date |-> 0, calories |-> 233], [date |-> 1, calories |-> 0]>>

\* ---------------------------------------------------------------------------
\* Claims about the check constraints
\* ---------------------------------------------------------------------------

\* Every stored goal_type and category is one the CHECK constraints allow.
ChecksHold ==
  /\ \A p \in db["users_profiles"] :
       p.goal_type \in {"weight_loss", "muscle_gain", "maintenance"}
  /\ \A m \in db["meal_logs"] :
       m.category \in {"breakfast", "lunch", "dinner", "snack"}

\* The owner's insert or update carrying another value fails, the store
\* unchanged.
OtherValueRejected ==
  (/\ resp'.cmd \in {"INSERT", "UPDATE"}
   /\ \E r \in resp'.rows :
        \/ resp'.table = "users_profiles" /\ "goal_type" \in DOMAIN r
             /\ r.goal_type \notin {"weight_loss", "muscle_gain", "maintenance"}
        \/ resp'.table = "meal_logs" /\ "category" \in DOMAIN r
             /\ r.category \notin {"breakfast", "lunch", "dinner", "snack"})
    => resp'.error /\ db' = db

\* What the Profile and MealLogging forms have sent carries allowed values.
FormsSubmitAllowed ==
  \A i \in DOMAIN tasks :
    /\ (tasks[i].req.kind = "update" /\ tasks[i].req.table = "users_profiles")
         => tasks[i].req.row.goal_type \in {"weight_loss", "muscle_gain", "maintenance"}
    /\ (tasks[i].req.kind = "insert" /\ tasks[i].req.table = "meal_logs")
         => tasks[i].req.row.category \in {"breakfast", "lunch", "dinner", "snack"}

\* C15: in every state each users_profiles.goal_type is weight_loss, muscle_gain
\* or maintenance and each meal_logs.category is breakfast, lunch, dinner or
\* snack; an insert or update carrying another value is rejected and leaves the
\* store unchanged; and the Profile and MealLogging forms submit only values of
\* these sets.
C15_CheckConstraints ==
  /\ [](ChecksHold /\ FormsSubmitAllowed)
  /\ [][OtherValueRejected]_vars

\* An update to category 'brunch' was just rejected while a meal is stored.
C15_Witness ==
  /\ resp.cmd = "UPDATE" /\ resp.table = "meal_logs" /\ resp.error
  /\ \E r \in resp.rows : "category" \in DOMAIN r /\ r.category = "brunch"
  /\ db["meal_logs"] # {}

\* ---------------------------------------------------------------------------
\* Claims about the evaluator's weight, protein and average rules
\* ---------------------------------------------------------------------------

WeightKinds == {"weight_increased", "weight_decreased", "excellent_progress", "log_weight"}

\* The kinds of the weight sentences of the text, in order.
WeightKindsOf(text) ==
  LET ws == SelectSeq(text, LAMBDA x : x.kind \in WeightKinds)
  IN [k \in DOMAIN ws |-> ws[k].kind]

\* C16: with a profile and two fetched weight logs, d being the first's weight
\* minus the second's, the text says 'weight increased' iff the goal is
\* weight_loss and d > 0, 'weight decreased' iff it is muscle_gain and d < 0,
\* 'Excellent progress' iff it is weight_loss and d < 0, and holds no weight
\* sentence otherwise; with fewer than two its only weight sentence is 'Log your
\* weight regularly'.
C16_WeightSentence ==
  (recOut # None /\ recIn.profile # None) =>
    LET kinds == WeightKindsOf(recOut[1])
        goal == recIn.profile[1].goal_type
        ws == recIn.weights
    IN IF ws # None /\ Len(ws[1]) >= 2
       THEN LET d == ws[1][1].weight - ws[1][2].weight
            IN /\ kinds = <<"weight_increased">> <=> (goal = "weight_loss" /\ d > 0)
               /\ kinds = <<"weight_decreased">> <=> (goal = "muscle_gain" /\ d < 0)
               /\ kinds = <<"excellent_progress">> <=> (goal = "weight_loss" /\ d < 0)
               /\ kinds = <<>> <=>
                    (d = 0 \/ goal = "maintenance" \/ (goal = "muscle_gain" /\ d > 0))
               /\ Len(kinds) <= 1
       ELSE kinds = <<"log_weight">>

\* C16 witness: a user losing weight whose newest log is 0.5 kg above the one
\* before is told the weight increased by 0.5 kg.
C16_Witness ==
  /\ recOut # None /\ recIn.profile # None /\ recIn.weights # None
  /\ recIn.profile[1].goal_type = "weight_loss"
  /\ recIn.weights[1] = <<[weight |-> 705], [weight |-> 700]>>
  /\ \E i \in DOMAIN recOut[1] : recOut[1][i] = Sentence("weight_increased", 5, 0)

\* Total of column col times servings over the first n fetched meals, a meal
\* without a joined food item counting 0.
RECURSIVE ColumnUpTo(_, _, _)
ColumnUpTo(ms, col, n) ==
  IF n = 0 THEN 0
  ELSE ColumnUpTo(ms, col, n - 1)
         + (IF ms[n].food_items = None THEN 0
            ELSE ms[n].food_items[1][col] * ms[n].servings)

\* C17: the text holds the 'increase your protein intake' sentence iff there is
\* a profile, at least one meal was fetched, the goal is muscle_gain and the
\* total protein divided by the number of logged days (at least 1) is below 50
\* (in hundredths of a gram: total < 50 * 100 * days); it holds it at most once.
C17_ProteinSentence ==
  recOut # None =>
    LET at == Positions(recOut[1], {"increase_protein"})
    IN /\ Cardinality(at) <= 1
       /\ at # {} <=>
            /\ recIn.profile # None
            /\ recIn.meals # None /\ Len(recIn.meals[1]) > 0
            /\ recIn.profile[1].goal_type = "muscle_gain"
            /\ ColumnUpTo(recIn.meals[1], "protein", Len(recIn.meals[1]))
                 < 50 * 100 * DayCount(recIn.meals[1])

\* C17 witness: two meals of 25 g on different days average 25 g and the
\* sentence is there.
C17_Witness ==
  /\ recOut # None /\ recIn.profile # None /\ recIn.meals # None
  /\ recIn.profile[1].goal_type = "muscle_gain"
  /\ Len(recIn.meals[1]) = 2
  /\ \A i \in 1..2 : recIn.meals[1][i].food_items # None /\ recIn.meals[1][i].servings = 10
  /\ recIn.meals[1][1].logged_at = 0 /\ recIn.meals[1][2].logged_at = TicksPerDay
  /\ Positions(recOut[1], {"increase_protein"}) # {}

\* The fetched meals of ms that have a food item.
Fed(ms) == {j \in 1..Len(ms) : ms[j].food_items # None}

\* C18: with a profile and at least one fetched meal, the average the calorie
\* sentence shows is the total calories of the meals with a food item divided
\* by the number of their distinct dates, at least 1 (rounded); and when no
\* fetched meal has a food item and the target is positive, the sentence is
\* 'below your target' with average 0.
C18_Averages ==
  (recOut # None /\ recIn.profile # None /\ recIn.meals # None
     /\ Len(recIn.meals[1]) > 0) =>
    LET ms == recIn.meals[1]
        t == recIn.profile[1].daily_calorie_target
        days == Max(Cardinality({ms[j].logged_at \div TicksPerDay : j \in Fed(ms)}), 1)
        cal == Positions(recOut[1], CalorieKinds)
    IN /\ days >= 1
       /\ \A i \in cal :
            recOut[1][i].a = RoundDiv(ColumnUpTo(ms, "calories", Len(ms)), 10 * days)
       /\ (Fed(ms) = {} /\ t > 0) =>
            \A i \in cal : recOut[1][i] = Sentence("below_target", 0, t)
       /\ cal # {}

\* C18 witness: one meal of 400 cal and a meal without a food item on another
\* day: one logged day, average 400.
C18_Witness ==
  /\ recOut # None /\ recIn.profile # None /\ recIn.meals # None
  /\ Len(recIn.meals[1]) = 2
  /\ recIn.meals[1][1].food_items # None /\ recIn.meals[1][1].logged_at = 0
  /\ recIn.meals[1][1].food_items[1].calories = 400 /\ recIn.meals[1][1].servings = 10
  /\ recIn.meals[1][2].food_items = None /\ recIn.meals[1][2].logged_at = TicksPerDay
  /\ \E i \in DOMAIN recOut[1] :
       recOut[1][i].kind \in CalorieKinds /\ recOut[1][i].a = 400

\* ---------------------------------------------------------------------------
\* Claims about the shape of the recommendation
\* ---------------------------------------------------------------------------

\* The tip of a goal.
TipOf(goal) ==
  CASE goal = "weight_loss" -> "tip_weight_loss"
    [] goal = "muscle_gain" -> "tip_muscle_gain"
    [] goal = "maintenance" -> "tip_maintenance"

\* The text is the single 'Complete your profile' sentence without a profile;
\* with one it is a meal sentence, at most one protein sentence, at most one
\* weight sentence and the goal's tip, in this order, and holds a single tip.
ShapeOk(profile, text) ==
  IF profile = None THEN text = <<Sentence("complete_profile", 0, 0)>>
  ELSE LET n == Len(text)
           kinds == [k \in 1..n |-> text[k].kind]
       IN /\ n >= 2
          /\ kinds[1] \in CalorieKinds \cup {"start_logging"}
          /\ SubSeq(kinds, 2, n - 1)
               \in {<<>>, <<"increase_protein">>}
                     \cup {<<w>> : w \in WeightKinds}
                     \cup {<<"increase_protein", w>> : w \in WeightKinds}
          /\ kinds[n] = TipOf(profile[1].goal_type)
          /\ Cardinality(Positions(text, {"tip_weight_loss", "tip_muscle_gain",
                                          "tip_maintenance"})) = 1

\* generateRecommendation, having fetched the weights, awaits the insert of the
\* text for what it fetched, whether or not there is a profile.
GenerateInserts ==
  \A i \in DOMAIN tasks :
    (tasks[i].h = "generateRecommendation" /\ tasks[i].pc = 4) =>
       /\ tasks[i].req.kind = "insert" /\ tasks[i].req.table = "ai_recommendations"
       /\ ShapeOk(tasks[i].acc.profile, tasks[i].req.row.recommendation_text)

\* C19: without a profile analyzeAndRecommend returns exactly the 'Complete
\* your profile' sentence, and generateRecommendation still sends it to be
\* inserted; with a profile the text is the meal section, the optional protein
\* sentence, the weight section (possibly empty) and last exactly one tip, the
\* one of the profile's goal.
C19_TextShape ==
  /\ recOut # None => ShapeOk(recIn.profile, recOut[1])
  /\ GenerateInserts

\* C19 witness: the profile did not arrive, and the row generateRecommendation
\* inserted holds the 'Complete your profile' sentence.
C19_Witness ==
  /\ \E i \in DOMAIN tasks :
       tasks[i].h = "generateRecommendation" /\ tasks[i].acc.profile = None
         /\ tasks[i].ins > 0
  /\ \E r \in db["ai_recommendations"] :
       r.id < 100 /\ r.recommendation_text = <<Sentence("complete_profile", 0, 0)>>

\* ---------------------------------------------------------------------------
\* Claims about WeightTracking's progress
\* ---------------------------------------------------------------------------

\* The user's weight logs in the store.
OwnWeightLogs == {r \in db["weight_logs"] : r.user_id = Uid}

\* The differences between a latest-dated and an earliest-dated log's weight.
SinceFirstLog ==
  {a.weight - b.weight :
     a \in {r \in OwnWeightLogs : \A x \in OwnWeightLogs : x.date <= r.date},
     b \in {r \in OwnWeightLogs : \A x \in OwnWeightLogs : x.date >= r.date}}

\* C20: when WeightTracking shows the list its load query gives on the store,
\* the Progress value is the weight of the user's latest log minus the weight
\* of the user's earliest log in the store if the user has two logs or more,
\* and no Progress value is shown otherwise.
C20_SinceFirstLog ==
  (IsSome(user) /\ view.tab = "weight"
     /\ view.weightLogs \in ListQuery(db, Uid, "weight_logs")) =>
    IF Cardinality(OwnWeightLogs) >= 2
    THEN /\ ProgressShown(view.weightLogs)
         /\ WeightTrackingChange(view.weightLogs) \in SinceFirstLog
    ELSE ~ProgressShown(view.weightLogs)

\* ---------------------------------------------------------------------------
\* Claims about deleting by id
\* ---------------------------------------------------------------------------

\* The tables WeightTracking.handleDelete, MeasurementTracking.handleDelete and
\* MealLogging.handleDeleteMeal delete from.
DeleteTables == {"weight_logs", "measurements", "meal_logs"}

\* A delete by id removes only rows of the caller, and none when the id is
\* another user's or no row's.
DeleteByIdOwnOnly ==
  (resp'.cmd = "DELETE" /\ resp'.table \in DeleteTables) =>
    /\ \A r \in db[resp'.table] \ db'[resp'.table] : r.user_id = resp'.caller
    /\ \A t \in Tables : t # resp'.table => db'[t] = db[t]
    /\ db'[resp'.table] \subseteq db[resp'.table]
    /\ resp'.caller \notin resp'.aimed => db' = db

\* C21: a delete filtered on the id alone, by any caller for any id, on
\* weight_logs, measurements or meal_logs never removes a row whose user_id is
\* not the caller, and leaves the store unchanged when the id is another
\* user's or no row's.
C21_DeleteById == [][DeleteByIdOwnOnly]_vars

\* C21 witness: u1's delete named an id no measurement has, while u2's
\* measurement is stored.
C21_Witness ==
  /\ resp.cmd = "DELETE" /\ resp.table = "measurements"
  /\ resp.caller = "u1" /\ resp.aimed = {}
  /\ \E r \in db["measurements"] : r.user_id = "u2"

\* ---------------------------------------------------------------------------
\* Claims about failed inserts
\* ---------------------------------------------------------------------------

\* What the catch of the three submit handlers writes to the console.
SubmitErrors ==
  {"Error logging weight:", "Error logging measurements:", "Error logging meal:"}

\* This step is the catch of a submit handler whose insert failed.
SubmitCaught == Len(log') = Len(log) + 1 /\ log'[Len(log')] \in SubmitErrors

\* The store answers an insert with an error on this step.
InsertRejected ==
  \E i \in DOMAIN tasks :
    /\ i \in DOMAIN tasks' /\ tasks[i].st = "sent" /\ tasks'[i].st = "answered"
    /\ tasks[i].req.kind = "insert" /\ tasks'[i].ans.error

\* C22: when the insert of WeightTracking.handleSubmit,
\* MeasurementTracking.handleSubmit or MealLogging.handleLogMeal is rejected,
\* the store is unchanged, and the handler's catch leaves the form fields, the
\* displayed lists and the Dashboard as they are, the loading flag aside, and
\* sends no request: the requests in flight after it are those before it less
\* the handler's own.
C22_FailedInsert ==
  [][/\ InsertRejected => db' = db
     /\ SubmitCaught =>
          /\ db' = db
          /\ view' \in {view, [view EXCEPT !.loading = FALSE]}
          /\ view'.form = view.form
          /\ dash' = dash
          /\ \E i \in DOMAIN tasks :
               /\ tasks[i].pc = 1 /\ tasks[i].ans.error
               /\ tasks[i].h \in SubmitHandlers
               /\ tasks' = RemoveAt(tasks, i)]_vars

\* C22 witness: the insert of the weight form failed and was caught; the form
\* still holds the weight entered, the list is the one loaded before, the
\* store has no new row and nothing is in flight.
C22_Witness ==
  /\ view.tab = "weight" /\ ~view.loading
  /\ log = <<"Error logging weight:">>
  /\ view.form.weight = 700
  /\ Len(view.weightLogs) > 0
  /\ tasks = <<>>
  /\ CreatedRows("weight_logs") = {}

\* ---------------------------------------------------------------------------
\* Claims about saving the profile
\* ---------------------------------------------------------------------------

\* Profile.handleSubmit ends on this step, its update answered without error.
ProfileSubmitEnds(i) ==
  /\ tasks[i].h = "Profile.handleSubmit"
  /\ tasks[i].st = "answered" /\ ~tasks[i].ans.error
  /\ \A k \in DOMAIN tasks' : tasks'[k].h # "Profile.handleSubmit"

\* The store after the step holds the user's profile with the values of task i.
ProfileStored(i) ==
  \E p \in db'["users_profiles"] :
    /\ p.id = Uid
    /\ p.name = tasks[i].req.row.name
    /\ p.goal_type = tasks[i].req.row.goal_type
    /\ p.daily_calorie_target = tasks[i].req.row.daily_calorie_target

\* C23: when Profile.handleSubmit completes without a reported error, the store
\* holds the user's users_profiles row with the submitted name, goal_type and
\* daily_calorie_target, whether or not the user had a row before.
C23_ProfileSaved ==
  [][\A i \in DOMAIN tasks : ProfileSubmitEnds(i) => ProfileStored(i)]_vars

\* ---------------------------------------------------------------------------
\* Claims about the progress view
\* ---------------------------------------------------------------------------

\* The first day of the period selected.
PeriodStart == DayOf(StartDate(view.form.period))

\* C24: in ProgressCharts, once every request has completed, each weight log
\* shown is dated on or after today minus daysBack of the period selected, and
\* so is each dailyCalories entry, whatever the order of the answers and
\* whether or not a request failed.
C24_SelectedPeriodShown ==
  (IsSome(user) /\ view.tab = "progress" /\ tasks = <<>>) =>
    /\ \A k \in DOMAIN view.weightLogs : view.weightLogs[k].date >= PeriodStart
    /\ \A k \in DOMAIN view.dailyCalories : view.dailyCalories[k].date >= PeriodStart


\* ------------------------------------------------- today's calories (C25)

\* The rounded calorie total of a listing of meals, as loadDashboardData sums it.
CaloriesOf(meals) == RoundedTotal(meals, "calories", 10)

\* C25: for the same store and clock, the Dashboard's todayCalories (the sum
\* over the answer of loadDashboardData's meal query) equals the rounded sum of
\* calories * servings over the meals MealLogging.loadMealLogs returns,
\* whatever logged_at values the user's meals have.
C25_TodayCaloriesMatchList ==
  IsSome(user) =>
    \A counted \in TodayMealsQuery(db, Uid, Today),
       listed \in MealLogsQuery(db, Uid, Today) :
      CaloriesOf(counted) = CaloriesOf(listed)


\* ------------------------------------------------- the calorie bar (C26)
\* Numbers as JavaScript has them: a finite value (here in hundredths), NaN,
\* Infinity or -Infinity.

Num(v) == [kind |-> "num", value |-> v]

NaN == [kind |-> "NaN", value |-> 0]

Infinity == [kind |-> "Infinity", value |-> 0]

NegInfinity == [kind |-> "-Infinity", value |-> 0]

\* (a / b) * 100 for integers a and b, truncated to hundredths.
PercentOf(a, b) ==
  CASE b = 0 /\ a = 0 -> NaN
    [] b = 0 /\ a > 0 -> Infinity
    [] b = 0 /\ a < 0 -> NegInfinity
    [] b > 0 /\ a >= 0 -> Num((a * 10000) \div b)
    [] b > 0 /\ a < 0 -> Num(0 - (((0 - a) * 10000) \div b))
    [] b < 0 /\ a >= 0 -> Num(0 - ((a * 10000) \div (0 - b)))
    [] OTHER -> Num(((0 - a) * 10000) \div (0 - b))

\* Dashboard line 91.
calorieProgress(profile, todayCalories) ==
  IF IsSome(profile)
  THEN PercentOf(todayCalories, Get(profile).daily_calorie_target)
  ELSE Num(0)

\* Math.min(x, 100): NaN if x is NaN.
MathMin100(x) ==
  CASE x.kind = "NaN" -> NaN
    [] x.kind = "Infinity" -> Num(10000)
    [] x.kind = "-Infinity" -> NegInfinity
    [] OTHER -> IF x.value < 10000 THEN x ELSE Num(10000)

\* Line 173: the width of the calorie bar, in percent.
BarWidth == MathMin100(calorieProgress(dash.profile, dash.todayCalories))

\* Line 102 and line 156: the bar is on screen.
BarShown == IsSome(user) /\ ~dash.loading /\ activeTab = "dashboard"

\* Values an authenticated user's own UPDATE leaves in daily_calorie_target.
StoredTargets == {0 - 500, 0, 2000}

\* The stores after the user has set the target with a statement of their own.
TargetStores ==
  {SqlUpdate(ViewStore(1), "u1", "users_profiles", "u1",
             [daily_calorie_target |-> c]).db : c \in StoredTargets}

InitTargets == InitSession(TargetStores)

SpecTargets == InitTargets /\ [][NextViews]_vars

\* C26: whenever the Dashboard shows the calorie bar, its width
\* min(todayCalories / daily_calorie_target * 100, 100) is a defined number
\* between 0 and 100, for every target the store holds.
C26_BarWidthInRange ==
  BarShown => /\ BarWidth.kind = "num"
              /\ BarWidth.value >= 0
              /\ BarWidth.value <= 10000


\* ------------------------------------------------- one write per form (C27)
\* A session from the moment the user, having submitted the weight form, has
\* left it for the Profile tab while the insert is awaited.

\* WeightTracking.handleSubmit awaiting its insert, its component unmounted.
LeftSubmit ==
  [NewTask("WeightTracking.handleSubmit",
           InsertReq("weight_logs", [user_id |-> "u1", weight |-> 700, date |-> 0]))
     EXCEPT !.live = FALSE]

InitForms ==
  /\ db = ViewStore(1)
  /\ nextId = 1
  /\ resp = NoResp /\ scope = {} /\ RecIdle
  /\ user = Some("u1")
  /\ now = TicksPerDay - 1
  /\ activeTab = "profile"
  /\ dash \in LoadedDash(db, "u1", 0)
  /\ view = InitialView(activeTab, dash.profile, 0)
  /\ tasks = <<LeftSubmit>> \o MountTasks(activeTab, 0, "u1")
  /\ log = <<>>
  /\ stats = [NoStats(AppOps) EXCEPT !.invoked = Bump(@, "weight_logs"),
                                     !.submits = Bump(@, "weight_logs")]

SpecForms == InitForms /\ [][NextViews]_vars

\* The handlers behind a submit control that is disabled while loading.
FormHandlers ==
  {"WeightTracking.handleSubmit", "MeasurementTracking.handleSubmit", "handleLogMeal",
   "Profile.handleSubmit", "generateRecommendation"}

\* The executions of handler h that have not returned.
Running(h) == {i \in DOMAIN tasks : tasks[i].h = h}

\* C27: two executions of the same view's submit handler never overlap: at any
\* time at most one execution of each of them has not returned.
C27_OneWriteInFlight == \A h \in FormHandlers : Cardinality(Running(h)) <= 1

\* ------------------------------------------------- the lists' shape (C28)

\* The fields of view that hold the lists loaded with .limit(30), and their tables.
LimitedLists == {<<"weightLogs", "weight_logs">>, <<"measurements", "measurements">>}

\* At most ListLimit rows, all of user u, in non-increasing date order.
ListShaped(rows, u) ==
  /\ Len(rows) <= ListLimit
  /\ \A k \in DOMAIN rows : rows[k].user_id = u
  /\ \A k \in 1..(Len(rows) - 1) : rows[k].date >= rows[k + 1].date

\* rows lists ListLimit of the rows S, and no row left out is dated later than
\* one listed.
HoldsLatest(rows, S) ==
  LET listed == {rows[k] : k \in DOMAIN rows}
  IN /\ Len(rows) = ListLimit
     /\ Cardinality(listed) = ListLimit
     /\ listed \subseteq S
     /\ \A r \in S \ listed : \A x \in listed : r.date <= x.date

\* The rows of user u among the rows T of a table.
RowsOf(T, u) == {r \in T : r.user_id = u}

ListsShaped ==
  IsSome(user) => \A l \in LimitedLists : ListShaped(view[l[1]], Uid)

\* A list is set from the answer of a list request: when the user had more than
\* ListLimit rows as the store answered, the list holds the latest of those rows.
ListSetFromLatest ==
  \A l \in LimitedLists :
    (IsSome(user) /\ view'[l[1]] # view[l[1]] /\ view'[l[1]] # <<>>) =>
      \E i \in DOMAIN tasks :
        /\ tasks[i].st = "answered" /\ tasks[i].req.kind = "list"
        /\ tasks[i].req.table = l[2] /\ IsSome(tasks[i].seen)
        /\ IsSome(tasks[i].ans.data)
        /\ view'[l[1]] = Get(tasks[i].ans.data)
        /\ LET had == RowsOf(Get(tasks[i].seen), Uid)
           IN Cardinality(had) > ListLimit => HoldsLatest(view'[l[1]], had)

\* C28 as stated: in every state each list is shaped, and when the user has
\* more than ListLimit rows in the store the list holds the latest of them.
C28_ListsHoldLatest ==
  IsSome(user) =>
    \A l \in LimitedLists :
      /\ ListShaped(view[l[1]], Uid)
      /\ (view.tab # "none" /\ Cardinality(RowsOf(db[l[2]], Uid)) > ListLimit) =>
           HoldsLatest(view[l[1]], RowsOf(db[l[2]], Uid))

\* C28, amended: in every state weightLogs and measurements hold at most
\* ListLimit rows, all of the signed-in user, in non-increasing date order, and
\* whenever a list is set it is set to the answer of a list request which, if
\* the user had more than ListLimit rows when the store answered, holds
\* ListLimit of those rows with the latest dates.
C28_ListsShapedAndLoadedLatest == []ListsShaped /\ [][ListSetFromLatest]_vars

\* The weight list of a user with more than ListLimit rows holds the latest.
C28_Witness ==
  /\ view.tab = "weight" /\ tasks = <<>>
  /\ Cardinality(RowsOf(db["weight_logs"], "u1")) > ListLimit
  /\ ListShaped(view.weightLogs, "u1")
  /\ HoldsLatest(view.weightLogs, RowsOf(db["weight_logs"], "u1"))

\* ------------------------------------------------- append-only tables (C29)

\* The tables without an UPDATE and a DELETE policy.
AppendOnlyTables == {"food_items", "ai_recommendations"}

\* A statement of an authenticated caller keeps every row of these tables as it
\* is and every profile in place.
KeepsRows ==
  /\ \A t \in AppendOnlyTables : db[t] \subseteq db'[t]
  /\ IdsOf(db, "users_profiles") \subseteq IdsOf(db', "users_profiles")

\* C29: no statement of an authenticated caller updates or deletes a food_items
\* or an ai_recommendations row or deletes a users_profiles row: across any
\* sequence of statements the rows of the two tables only grow, each unchanged.
C29_AppendOnly == [][KeepsRows]_vars

\* A caller aimed a DELETE at a recommendation of their own, and it is there.
C29_Witness ==
  /\ resp.cmd = "DELETE" /\ resp.table = "ai_recommendations"
  /\ resp.caller \in resp.aimed /\ ~resp.error
  /\ \E r \in db["ai_recommendations"] : r.user_id = resp.caller
====
